---- MODULE Spec2Model ----
(***************************************************************************)
(* Mira agent: the multi-tenant credential, login-token and user/tenant    *)
(* layer (src/src/db.py, src/src/auth.py, src/src/secret_store.py and the  *)
(* sidebar / login handlers of src/app.py).                                *)
(*                                                                         *)
(* Specifications:                                                         *)
(*   Spec       magic-link login: generate_login_token, the login-token    *)
(*              handler of app.py, the clock.  Calls are not interleaved.  *)
(*   SpecUsers  non-interleaved get_or_create_user calls.                  *)
(*   SpecStore  the secret store called directly, with master key rotation *)
(*   SpecCred   the sidebar: login, credential resolution, the two Save    *)
(*              buttons.                                                   *)
(*   SpecConc   two workers running the database functions statement by    *)
(*              statement (READ COMMITTED: a statement sees what is        *)
(*              committed; each function's single write commits with it).  *)
(*   SpecTenants two workers running get_or_create_company.                *)
(*   SpecDocs   save_uploaded_files (src/src/storage.py), calls not        *)
(*              interleaved.                                               *)
(*   SpecTools  the four agent tools of src/src/tools.py called directly.  *)
(*   SpecHandler an AgenticLLMHandler (src/src/llm_handler.py) used        *)
(*              directly; the model asks for one tool per planning step.   *)
(*   SpecLoop   one handler; the model may ask for several tools in every  *)
(*              planning step.                                             *)
(*   SpecIndex  the script runs of the AI Assistant tab without prompts:   *)
(*              input changes, reruns, Reset Knowledge Base.               *)
(*   SpecAgent  the AI Assistant tab: input changes, prompts, turns, Clear *)
(*              Chat History, Reset Knowledge Base.                        *)
(*   SpecRender OutputGenerator.generate_all_formats called directly.      *)
(*   SpecProcess DocumentProcessor.process_files called directly.          *)
(*   SpecDirect the Project Planning and Status Reports tabs with the      *)
(*              LLMHandler.                                                *)
(***************************************************************************)
EXTENDS Integers, FiniteSets, Sequences, TLC

VARIABLES
    companies,        \* table companies: rows [id, name, domain]
    users,            \* table users: rows [id, email, company_id, role]
    login_tokens,     \* table login_tokens: rows [id, user_id, token_hash, expires_at, used_at]
    user_secrets,     \* table user_secrets: rows [id, owner, key_name, encrypted_value]
    company_secrets,  \* table company_secrets: rows [id, owner, key_name, encrypted_value]
    nextId,           \* the next value _new_id() / secrets.token_urlsafe() returns
    now,              \* utcnow(), in minutes
    ticks,            \* how often the clock has advanced
    masterKey,        \* os.getenv("SECRETS_MASTER_KEY")
    current_user,     \* st.session_state["current_user"] of each browser session
    lastVerify,       \* history: the run of the login-token handler, if that was the last step
    verified,         \* history: the raw tokens the handler has verified at least once
    ret,              \* history: the last get_or_create_user call and its result
    lastPlain,        \* history: (table, owner, key_name) -> last plaintext set and its master key
    sets,             \* history: secret-store writes (SpecStore), Save clicks (SpecCred) so far
    rt,               \* history: the last set-then-get round trip
    pc,               \* SpecConc: each worker's position
    loc,              \* SpecConc: each worker's local variables
    calls,            \* SpecConc, SpecTenants: calls started so far
    documents,        \* table documents: rows [id, company_id, user_id, filename, path, size, sha256]
    audit_logs,       \* table audit_logs: rows [id, company_id, user_id, action, doc_id, meta]
    blobs,            \* the upload directory or bucket: path -> bytes
    s3_client,        \* the S3_* environment variables are all set
    lastSave,         \* history: the last save_uploaded_files call
    ui,               \* the widgets of the running session: sidebar inputs, uploaded files
    ss,               \* st.session_state of the session
    turn,             \* the chat call in progress, or the one that returned last
    turns,            \* chat turns started so far
    lastTool,         \* history: the tool call that was the last step
    lastRun,          \* history: the script run that was the last step
    kb,               \* history: the file set indexed last, and whether its index was discarded
    completed         \* history: the turns the executor finished since the memory was cleared

dbVars == <<companies, users, login_tokens, user_secrets, company_secrets, nextId>>
clockVars == <<now, ticks>>
loginVars == <<current_user, lastVerify, verified>>
storeVars == <<masterKey, lastPlain, sets, rt>>
concVars == <<pc, loc, calls>>
docVars == <<documents, audit_logs, blobs, s3_client, lastSave>>
agentVars == <<ui, ss, turn, turns, lastTool, lastRun, kb, completed>>
appVars == <<docVars, agentVars>>
vars == <<dbVars, clockVars, loginVars, storeVars, ret, concVars, appVars>>

----------------------------------------------------------------------------
(* Bounds of the model *)

MaxTokens == 2
MaxTicks == 2
MaxSets == 2
MaxSaves == 2
MaxCalls == 3

(* Program constants *)

TtlMinutes == 15

----------------------------------------------------------------------------
(* Values *)

\* Python's None where a string or a row is expected
None == "<None>"
NoRow == [none |-> TRUE]
\* NULL in a DateTime column
Null == -1

\* Python truthiness of an optional string
Truthy(v) == v /= None /\ v /= ""

\* E-mail addresses: local part and the text after "@" (None: no "@")
Email(l, d) == [local |-> l, domain |-> d]
AllEmails ==
    { Email("a", "acme.com"), Email("b", "acme.com"), Email("c", "acme.org"),
      Email("d", "beta.io"), Email("root", None) }

\* The addresses typed into the login form
LoginEmails == { Email("a", "acme.com"), Email("b", "acme.com") }

\* str.capitalize() of the first dot-separated label of a domain
FirstLabelCapitalized(domain) ==
    CASE domain = "acme.com" -> "Acme"
      [] domain = "acme.org" -> "Acme"
      [] domain = "beta.io" -> "Beta"

DefaultCompanyName == "Default Company"

_extract_domain_from_email(email) == email.domain

_get_company_name_from_domain(domain) ==
    IF ~Truthy(domain) THEN DefaultCompanyName ELSE FirstLabelCapitalized(domain)

KeyNames == {"openai_api_key", "trello_api_key", "trello_token"}

AuthSecret == "AUTH_SECRET"
\* HMAC-SHA256 of the raw token under AUTH_SECRET: a keyed digest, injective
\* on the tokens of the model
_hash_token(raw) == [secret |-> AuthSecret, msg |-> raw]

MasterKeys == {"mk1", "mk2"}
\* Fernet: a token is readable under the key it was made under and under no
\* other; decryption under another key raises InvalidToken.  (The token's
\* random IV and timestamp, which no function here reads, are left out.)
FernetEncrypt(key, plaintext) == [key |-> key, pt |-> plaintext]
InvalidToken == "<InvalidToken>"
FernetDecrypt(key, token) == IF token.key = key THEN token.pt ELSE InvalidToken

----------------------------------------------------------------------------
(* src/src/db.py, one call at a time.  Each function is an operator from   *)
(* the tables it reads to the tables it leaves and the value it returns.   *)

\* set_current_user: the session's view of a users row
UserDict(row) ==
    [id |-> row.id, email |-> row.email, company_id |-> row.company_id,
     role |-> IF row.role = None THEN "member" ELSE row.role,
     domain |-> row.email.domain]

\* fetchone() of a select that matches at most one row
FetchOne(rows) == IF rows = {} THEN NoRow ELSE CHOOSE r \in rows : TRUE

get_or_create_company(comps, id, name, domain) ==
    LET byDomain == FetchOne({c \in comps : c.domain = domain})
        byName == FetchOne({c \in comps : c.name = name})
    IN  IF Truthy(domain) /\ byDomain /= NoRow
        THEN [companies |-> comps, row |-> byDomain, nextId |-> id]
        ELSE IF byName /= NoRow
        THEN IF Truthy(domain) /\ ~Truthy(byName.domain)
             THEN LET upd == [byName EXCEPT !.domain = domain]
                  IN  [companies |-> (comps \ {byName}) \cup {upd}, row |-> upd,
                       nextId |-> id]
             ELSE [companies |-> comps, row |-> byName, nextId |-> id]
        ELSE LET new == [id |-> id, name |-> name, domain |-> domain]
             IN  [companies |-> comps \cup {new}, row |-> new, nextId |-> id + 1]

\* Mutant: every new user is made admin
RoleFor_always_admin(existing) == "admin"

\* The role of a user inserted into a company that has `existing` users
RoleFor(existing) == IF Cardinality(existing) = 0 THEN "admin" ELSE "member"

get_or_create_user(comps, usrs, id, email, company_name, domain) ==
    LET found == FetchOne({u \in usrs : u.email = email})
    IN  IF found /= NoRow
        THEN [companies |-> comps, users |-> usrs, row |-> found, nextId |-> id]
        ELSE LET co == get_or_create_company(comps, id, company_name, domain)
                 existing_count == {u \in usrs : u.company_id = co.row.id}
                 new == [id |-> co.nextId, email |-> email,
                         company_id |-> co.row.id, role |-> RoleFor(existing_count)]
             IN  [companies |-> co.companies, users |-> usrs \cup {new},
                  row |-> new, nextId |-> co.nextId + 1]

create_login_token(toks, id, user_id, token_hash, expires_at) ==
    toks \cup {[id |-> id, user_id |-> user_id, token_hash |-> token_hash,
                expires_at |-> expires_at, used_at |-> Null]}

\* Mutant: a token is still good at the minute it expires
Expired_strict(token_row, t) == token_row.expires_at < t

\* The expiry test of use_login_token
Expired(token_row, t) == token_row.expires_at <= t

\* Mutant: the token is returned but never marked used
use_login_token_unmarked(toks, usrs, token_hash, t) ==
    LET token_row == FetchOne({k \in toks : k.token_hash = token_hash})
    IN  IF token_row = NoRow THEN [login_tokens |-> toks, row |-> NoRow]
        ELSE IF token_row.used_at /= Null THEN [login_tokens |-> toks, row |-> NoRow]
        ELSE IF Expired(token_row, t) THEN [login_tokens |-> toks, row |-> NoRow]
        ELSE [login_tokens |-> toks,
              row |-> FetchOne({u \in usrs : u.id = token_row.user_id})]

\* Mutant: used_at is written but not tested
use_login_token_reusable(toks, usrs, token_hash, t) ==
    LET token_row == FetchOne({k \in toks : k.token_hash = token_hash})
    IN  IF token_row = NoRow THEN [login_tokens |-> toks, row |-> NoRow]
        ELSE IF Expired(token_row, t) THEN [login_tokens |-> toks, row |-> NoRow]
        ELSE [login_tokens |-> (toks \ {token_row})
                                 \cup {[token_row EXCEPT !.used_at = t]},
              row |-> FetchOne({u \in usrs : u.id = token_row.user_id})]

use_login_token(toks, usrs, token_hash, t) ==
    LET token_row == FetchOne({k \in toks : k.token_hash = token_hash})
    IN  IF token_row = NoRow THEN [login_tokens |-> toks, row |-> NoRow]
        ELSE IF token_row.used_at /= Null THEN [login_tokens |-> toks, row |-> NoRow]
        ELSE IF Expired(token_row, t) THEN [login_tokens |-> toks, row |-> NoRow]
        ELSE [login_tokens |-> (toks \ {token_row})
                                 \cup {[token_row EXCEPT !.used_at = t]},
              row |-> FetchOne({u \in usrs : u.id = token_row.user_id})]

\* src/src/auth.py
generate_login_token(comps, usrs, toks, id, email, t) ==
    LET domain == _extract_domain_from_email(email)
        company_name == IF Truthy(domain) THEN _get_company_name_from_domain(domain)
                        ELSE DefaultCompanyName
        u == get_or_create_user(comps, usrs, id, email, company_name, domain)
        raw_token == u.nextId
    IN  [companies |-> u.companies, users |-> u.users,
         login_tokens |-> create_login_token(toks, u.nextId + 1, u.row.id,
                                             _hash_token(raw_token), t + TtlMinutes),
         raw_token |-> raw_token, user |-> u.row, nextId |-> u.nextId + 2]

verify_login_token(toks, usrs, raw_token, t) ==
    use_login_token(toks, usrs, _hash_token(raw_token), t)

----------------------------------------------------------------------------
(* The state after start-up: init_db() has created empty tables, nobody is *)
(* logged in, no worker is running a call.                                  *)

Sessions == {"s1", "s2"}
Procs == {"w1", "w2"}
NoUser == [none |-> TRUE]
NoVerify == [none |-> TRUE]
NoCall == [none |-> TRUE]
EmptyMap == [x \in {} |-> 0]
\* A raw token nobody was issued
UnknownToken == 0
\* No chat call has been made
NoTurn == [phase |-> "idle"]
\* The widgets before the user touches them (app.py 270-341, 718-724)
DefaultInputs ==
    [api_key |-> "", model |-> "gpt-4o-mini", trello_key |-> "", trello_token |-> "",
     files |-> <<>>, rerun |-> FALSE]

Init ==
    /\ companies = {}
    /\ users = {}
    /\ login_tokens = {}
    /\ user_secrets = {}
    /\ company_secrets = {}
    /\ nextId = 1
    /\ now = 0
    /\ ticks = 0
    /\ masterKey = "mk1"
    /\ current_user = [s \in Sessions |-> NoUser]
    /\ lastVerify = NoVerify
    /\ verified = {}
    /\ ret = NoCall
    /\ lastPlain = EmptyMap
    /\ sets = 0
    /\ rt = NoCall
    /\ pc = [p \in Procs |-> "idle"]
    /\ loc = [p \in Procs |-> NoCall]
    /\ calls = 0
    /\ documents = {}
    /\ audit_logs = {}
    /\ blobs = EmptyMap
    /\ s3_client = FALSE
    /\ lastSave = NoCall
    /\ ui = DefaultInputs
    /\ ss = EmptyMap
    /\ turn = NoTurn
    /\ turns = 0
    /\ lastTool = NoCall
    /\ lastRun = NoCall
    /\ kb = [indexed |-> <<>>, discarded |-> FALSE]
    /\ completed = <<>>

----------------------------------------------------------------------------
(* Spec: magic-link login (src/app.py 169-180 and 246-265)                 *)

\* The raw tokens issued so far
IssuedTokens == {k.token_hash.msg : k \in login_tokens}
TokenRow(raw) == FetchOne({k \in login_tokens : k.token_hash = _hash_token(raw)})

\* "Send Magic Link": generate_login_token, then the mail (which changes no state)
SendMagicLink(s, email) ==
    /\ current_user[s] = NoUser
    /\ Cardinality(login_tokens) < MaxTokens
    /\ LET g == generate_login_token(companies, users, login_tokens, nextId, email, now)
       IN  /\ companies' = g.companies
           /\ users' = g.users
           /\ login_tokens' = g.login_tokens
           /\ nextId' = g.nextId
    /\ lastVerify' = NoVerify
    /\ UNCHANGED <<appVars, user_secrets, company_secrets, clockVars, current_user, verified,
                   storeVars, ret, concVars>>

\* What the login-token handler shows and does with verify_login_token's result:
\* it logs the user in when a row came back, and shows st.error only when the
\* call raised
LoginOutcome(row) ==
    [logged_in |-> row /= NoRow, message |-> ""]

\* The script run that finds ?login_token=raw in the URL
ProcessLoginToken(s, raw) ==
    /\ current_user[s] = NoUser
    /\ LET res == verify_login_token(login_tokens, users, raw, now)
           out == LoginOutcome(res.row)
           before == TokenRow(raw)
       IN  /\ login_tokens' = res.login_tokens
           /\ current_user' = IF out.logged_in
                              THEN [current_user EXCEPT ![s] = UserDict(res.row)]
                              ELSE current_user
           /\ verified' = verified \cup {raw}
           /\ lastVerify' =
                [raw |-> raw, first |-> raw \notin verified,
                 unknown |-> before = NoRow,
                 used |-> before /= NoRow /\ before.used_at /= Null,
                 expired |-> before /= NoRow /\ before.expires_at <= now,
                 result |-> res.row, message |-> out.message,
                 logged_in |-> out.logged_in,
                 changed |-> res.login_tokens /= login_tokens]
    /\ UNCHANGED <<appVars, companies, users, user_secrets, company_secrets, nextId, clockVars,
                   storeVars, ret, concVars>>

\* Time passes: a minute, or the lifetime of a token
Tick(d) ==
    /\ ticks < MaxTicks
    /\ now' = now + d
    /\ ticks' = ticks + 1
    /\ lastVerify' = NoVerify
    /\ UNCHANGED <<appVars, dbVars, current_user, verified, storeVars, ret, concVars>>

Next ==
    \/ \E s \in Sessions, e \in LoginEmails : SendMagicLink(s, e)
    \/ \E s \in Sessions, raw \in IssuedTokens \cup {UnknownToken} : ProcessLoginToken(s, raw)
    \/ \E d \in {1, TtlMinutes} : Tick(d)

Spec == Init /\ [][Next]_vars

----------------------------------------------------------------------------
(* Claims checked under Spec *)

VerifyRan == lastVerify /= NoVerify
OwnerRow(raw) == FetchOne({u \in users : u.id = TokenRow(raw).user_id})

\* C5: the first verification of an issued token that has not expired returns
\* the users row of the principal it was issued to; every later verification
\* of the same raw token returns None.
C5_SingleUse ==
    (VerifyRan /\ lastVerify.raw \in IssuedTokens) =>
        /\ (lastVerify.first /\ ~lastVerify.expired) =>
              /\ lastVerify.result /= NoRow
              /\ lastVerify.result = OwnerRow(lastVerify.raw)
        /\ ~lastVerify.first => lastVerify.result = NoRow

\* C5 witness: a second verification of a token that was used and has not expired
C5_Witness ==
    /\ VerifyRan
    /\ lastVerify.raw \in IssuedTokens
    /\ ~lastVerify.first
    /\ lastVerify.used
    /\ ~lastVerify.expired

\* C7: a token whose expires_at is at or before the current time never
\* verifies, used or not, and the failed verification writes nothing
\* (used_at stays unset).
C7_ExpiredNeverVerifies ==
    (VerifyRan /\ lastVerify.expired) =>
        /\ lastVerify.result = NoRow
        /\ ~lastVerify.changed
        /\ (~lastVerify.used => TokenRow(lastVerify.raw).used_at = Null)

\* C7 witness: a never-used token verified at the very minute it expires
C7_Witness ==
    /\ VerifyRan
    /\ lastVerify.expired
    /\ ~lastVerify.used
    /\ TokenRow(lastVerify.raw).expires_at = now

\* C8: an unknown, an already-used and an expired token give one and the same
\* outcome: None, nobody logged in, no message.
C8_NoDistinction ==
    (VerifyRan /\ (lastVerify.unknown \/ lastVerify.used \/ lastVerify.expired)) =>
        /\ lastVerify.result = NoRow
        /\ ~lastVerify.logged_in
        /\ lastVerify.message = ""

\* C8 witness: an unknown token is tried while the table holds a used token and
\* an expired unused one, each of which has been tried too
C8_Witness ==
    /\ VerifyRan
    /\ lastVerify.unknown
    /\ \E k \in login_tokens : k.used_at /= Null /\ k.token_hash.msg \in verified
    /\ \E k \in login_tokens :
          k.used_at = Null /\ k.expires_at <= now /\ k.token_hash.msg \in verified

----------------------------------------------------------------------------
(* SpecUsers: get_or_create_user called one call at a time, with the       *)
(* company name and domain its callers derive from the address             *)
(* (src/src/auth.py 49-51, src/app.py 152-155)                             *)

CompanyNameFor(email) ==
    LET domain == _extract_domain_from_email(email)
    IN  IF Truthy(domain) THEN _get_company_name_from_domain(domain)
        ELSE DefaultCompanyName

CallGetOrCreateUser(email) ==
    /\ LET u == get_or_create_user(companies, users, nextId, email,
                                   CompanyNameFor(email),
                                   _extract_domain_from_email(email))
       IN  /\ companies' = u.companies
           /\ users' = u.users
           /\ nextId' = u.nextId
           /\ ret' = [email |-> email, row |-> u.row, before |-> users,
                      existed |-> \E x \in users : x.email = email]
    /\ UNCHANGED <<appVars, login_tokens, user_secrets, company_secrets, clockVars, loginVars,
                   storeVars, concVars>>

NextUsers == \E e \in AllEmails : CallGetOrCreateUser(e)

SpecUsers == Init /\ [][NextUsers]_vars

UsersOf(company_id) == {u \in users : u.company_id = company_id}
\* The user of a tenant that was created first (ids are handed out in order)
FirstUserOf(company_id) ==
    CHOOSE u \in UsersOf(company_id) : \A v \in UsersOf(company_id) : u.id <= v.id

\* C9: in every tenant that has users, the user created first is admin and
\* every user created later is member; a call for an address that already has
\* a row returns that row and changes no row.
C9_FirstUserIsAdmin ==
    /\ \A c \in companies :
          UsersOf(c.id) /= {} =>
              /\ FirstUserOf(c.id).role = "admin"
              /\ \A u \in UsersOf(c.id) \ {FirstUserOf(c.id)} : u.role = "member"
    /\ (ret /= NoCall /\ ret.existed) =>
          /\ ret.row \in ret.before
          /\ ret.row.email = ret.email
          /\ users = ret.before

\* C9 witness: a tenant with three users and another tenant with one, right
\* after a call for an address that already had a row
C9_Witness ==
    /\ ret /= NoCall
    /\ ret.existed
    /\ \E c \in companies : Cardinality(UsersOf(c.id)) = 3
    /\ \E c \in companies : Cardinality(UsersOf(c.id)) = 1

----------------------------------------------------------------------------
(* src/src/db.py 265-346 and src/src/secret_store.py, one call at a time   *)

\* Mutant: the row is inserted without looking for an existing one
upsert_user_secret_insert_only(tbl, id, user_id, key_name, encrypted_value) ==
    [table |-> tbl \cup {[id |-> id, owner |-> user_id, key_name |-> key_name,
                          encrypted_value |-> encrypted_value]},
     id |-> id, nextId |-> id + 1]

upsert_user_secret(tbl, id, user_id, key_name, encrypted_value) ==
    LET existing == FetchOne({r \in tbl : r.owner = user_id /\ r.key_name = key_name})
    IN  IF existing /= NoRow
        THEN [table |-> (tbl \ {existing})
                          \cup {[existing EXCEPT !.encrypted_value = encrypted_value]},
              id |-> existing.id, nextId |-> id]
        ELSE [table |-> tbl \cup {[id |-> id, owner |-> user_id, key_name |-> key_name,
                                   encrypted_value |-> encrypted_value]},
              id |-> id, nextId |-> id + 1]

get_user_secret(tbl, user_id, key_name) ==
    FetchOne({r \in tbl : r.owner = user_id /\ r.key_name = key_name})

upsert_company_secret(tbl, id, company_id, key_name, encrypted_value) ==
    LET existing == FetchOne({r \in tbl : r.owner = company_id /\ r.key_name = key_name})
    IN  IF existing /= NoRow
        THEN [table |-> (tbl \ {existing})
                          \cup {[existing EXCEPT !.encrypted_value = encrypted_value]},
              id |-> existing.id, nextId |-> id]
        ELSE [table |-> tbl \cup {[id |-> id, owner |-> company_id, key_name |-> key_name,
                                   encrypted_value |-> encrypted_value]},
              id |-> id, nextId |-> id + 1]

get_company_secret(tbl, company_id, key_name) ==
    FetchOne({r \in tbl : r.owner = company_id /\ r.key_name = key_name})

set_secret(tbl, id, key, user_id, key_name, plaintext) ==
    IF plaintext = None THEN [table |-> tbl, id |-> None, nextId |-> id]
    ELSE upsert_user_secret(tbl, id, user_id, key_name,
                            FernetEncrypt(key, plaintext))

\* Mutant: an empty plaintext is read back as absent
get_secret_falsy(tbl, key, user_id, key_name) ==
    LET row == get_user_secret(tbl, user_id, key_name)
    IN  IF row = NoRow THEN None
        ELSE LET decrypted == FernetDecrypt(key, row.encrypted_value)
             IN  IF decrypted = InvalidToken \/ decrypted = "" THEN None ELSE decrypted

get_secret(tbl, key, user_id, key_name) ==
    LET row == get_user_secret(tbl, user_id, key_name)
    IN  IF row = NoRow THEN None
        ELSE LET decrypted == FernetDecrypt(key, row.encrypted_value)
             IN  IF decrypted = InvalidToken THEN None ELSE decrypted

set_company_secret(tbl, id, key, company_id, key_name, plaintext) ==
    IF plaintext = None THEN [table |-> tbl, id |-> None, nextId |-> id]
    ELSE upsert_company_secret(tbl, id, company_id, key_name,
                               FernetEncrypt(key, plaintext))

get_company_secret_value(tbl, key, company_id, key_name) ==
    LET row == get_company_secret(tbl, company_id, key_name)
    IN  IF row = NoRow THEN None
        ELSE LET decrypted == FernetDecrypt(key, row.encrypted_value)
             IN  IF decrypted = InvalidToken THEN None ELSE decrypted

----------------------------------------------------------------------------
(* SpecStore: the secret store called directly for existing users and      *)
(* companies, one call at a time; the master key may be replaced between   *)
(* calls.  Every set is followed by a get of the same pair (rt).           *)

StoreEmails == { Email("a", "acme.com"), Email("d", "beta.io") }
StoreKeys == {"openai_api_key", "trello_token"}
\* The plaintext a pair was last set to before its latest set (None: not set before)
Before(pair) == IF pair \in DOMAIN lastPlain THEN lastPlain[pair].pt ELSE None
Plaintexts == {"", "sk-a"}

\* A user (and, for a new domain, its company) comes to exist
StoreCreateUser(email) ==
    /\ LET u == get_or_create_user(companies, users, nextId, email,
                                   CompanyNameFor(email),
                                   _extract_domain_from_email(email))
       IN  /\ companies' = u.companies
           /\ users' = u.users
           /\ nextId' = u.nextId
    /\ rt' = NoCall
    /\ UNCHANGED <<appVars, login_tokens, user_secrets, company_secrets, clockVars, loginVars,
                   masterKey, lastPlain, sets, ret, concVars>>

CallSetSecret(user_id, key_name, plaintext) ==
    /\ sets < MaxSets
    /\ LET r == set_secret(user_secrets, nextId, masterKey, user_id, key_name,
                           plaintext)
       IN  /\ user_secrets' = r.table
           /\ nextId' = r.nextId
           /\ rt' = [table |-> "user", owner |-> user_id, key_name |-> key_name,
                     v |-> plaintext,
                     got |-> get_secret(r.table, masterKey, user_id, key_name)]
    /\ sets' = IF plaintext = None THEN sets ELSE sets + 1
    /\ lastPlain' = IF plaintext = None THEN lastPlain
                    ELSE (<<"user", user_id, key_name>>
                            :> [pt |-> plaintext, key |-> masterKey,
                                prev |-> Before(<<"user", user_id, key_name>>)])
                         @@ lastPlain
    /\ UNCHANGED <<appVars, companies, users, login_tokens, company_secrets, clockVars,
                   loginVars, masterKey, ret, concVars>>

CallSetCompanySecret(company_id, key_name, plaintext) ==
    /\ sets < MaxSets
    /\ LET r == set_company_secret(company_secrets, nextId, masterKey, company_id,
                                   key_name, plaintext)
       IN  /\ company_secrets' = r.table
           /\ nextId' = r.nextId
           /\ rt' = [table |-> "company", owner |-> company_id, key_name |-> key_name,
                     v |-> plaintext,
                     got |-> get_company_secret_value(r.table, masterKey, company_id,
                                                      key_name)]
    /\ sets' = IF plaintext = None THEN sets ELSE sets + 1
    /\ lastPlain' = IF plaintext = None THEN lastPlain
                    ELSE (<<"company", company_id, key_name>>
                            :> [pt |-> plaintext, key |-> masterKey,
                                prev |-> Before(<<"company", company_id, key_name>>)])
                         @@ lastPlain
    /\ UNCHANGED <<appVars, companies, users, login_tokens, user_secrets, clockVars,
                   loginVars, masterKey, ret, concVars>>

\* The process is restarted with another SECRETS_MASTER_KEY
RotateMasterKey(key) ==
    /\ key /= masterKey
    /\ masterKey' = key
    /\ rt' = NoCall
    /\ UNCHANGED <<appVars, dbVars, clockVars, loginVars, lastPlain, sets, ret, concVars>>

NextStore ==
    \/ \E e \in StoreEmails : StoreCreateUser(e)
    \/ \E u \in users, k \in StoreKeys, v \in Plaintexts \cup {None} :
          CallSetSecret(u.id, k, v)
    \/ \E c \in companies, k \in StoreKeys, v \in Plaintexts \cup {None} :
          CallSetCompanySecret(c.id, k, v)
    \/ \E key \in MasterKeys : RotateMasterKey(key)

SpecStore == Init /\ [][NextStore]_vars

SecretTable(name) == IF name = "user" THEN user_secrets ELSE company_secrets
RowsFor(pair) ==
    {r \in SecretTable(pair[1]) : r.owner = pair[2] /\ r.key_name = pair[3]}
GetFor(pair) ==
    IF pair[1] = "user" THEN get_secret(user_secrets, masterKey, pair[2], pair[3])
    ELSE get_company_secret_value(company_secrets, masterKey, pair[2], pair[3])

\* C2: every (scope id, key_name) that was ever set with a non-null plaintext
\* has exactly one row in its table, and reading it (under the master key of
\* its last set) returns the plaintext of the most recent set.
C2_OneRowLatestValue ==
    \A pair \in DOMAIN lastPlain :
        /\ Cardinality(RowsFor(pair)) = 1
        /\ lastPlain[pair].key = masterKey => GetFor(pair) = lastPlain[pair].pt

\* C2 witness: a company pair was set twice, with different plaintexts
C2_Witness ==
    \E pair \in DOMAIN lastPlain :
        /\ pair[1] = "company"
        /\ lastPlain[pair].prev \notin {None, lastPlain[pair].pt}
        /\ lastPlain[pair].key = masterKey

----------------------------------------------------------------------------
(* SpecCred: the sidebar of src/app.py: login through the welcome app      *)
(* (146-158), the saved credentials it resolves (288-341) and the two Save *)
(* buttons (358-390)                                                       *)

CredEmails == { Email("a", "acme.com"), Email("b", "acme.com") }
\* What the three text inputs may hold when a Save button is pressed
Inputs == {"", "k1", "k2"}

\* The access_token of the welcome app was verified for `email`
SupabaseLogin(s, email) ==
    /\ current_user[s] = NoUser
    /\ LET u == get_or_create_user(companies, users, nextId, email,
                                   CompanyNameFor(email),
                                   _extract_domain_from_email(email))
       IN  /\ companies' = u.companies
           /\ users' = u.users
           /\ nextId' = u.nextId
           /\ current_user' = [current_user EXCEPT ![s] = UserDict(u.row)]
    /\ UNCHANGED <<appVars, login_tokens, user_secrets, company_secrets, clockVars, lastVerify,
                   verified, storeVars, ret, concVars>>

\* saved_api_key and api_key_source of a script run for current_user cu
ResolveOpenAI(cu) ==
    LET company_api_key ==
            get_company_secret_value(company_secrets, masterKey, cu.company_id,
                                     "openai_api_key")
        user_api_key == get_secret(user_secrets, masterKey, cu.id, "openai_api_key")
    IN  IF Truthy(company_api_key)
        THEN [openai_api_key |-> company_api_key, source |-> "company"]
        ELSE [openai_api_key |-> user_api_key,
              source |-> IF Truthy(user_api_key) THEN "user" ELSE None]

\* saved_trello_key, saved_trello_token and trello_source
ResolveTrello(cu) ==
    LET company_trello_key ==
            get_company_secret_value(company_secrets, masterKey, cu.company_id,
                                     "trello_api_key")
        company_trello_token ==
            get_company_secret_value(company_secrets, masterKey, cu.company_id,
                                     "trello_token")
        user_trello_key == get_secret(user_secrets, masterKey, cu.id, "trello_api_key")
        user_trello_token == get_secret(user_secrets, masterKey, cu.id, "trello_token")
    IN  IF Truthy(company_trello_key) /\ Truthy(company_trello_token)
        THEN [trello_api_key |-> company_trello_key,
              trello_token |-> company_trello_token, source |-> "company"]
        ELSE [trello_api_key |-> user_trello_key, trello_token |-> user_trello_token,
              source |-> IF Truthy(user_trello_key) \/ Truthy(user_trello_token)
                         THEN "user" ELSE None]

\* The effective saved credential of cu for one key name
Resolved(cu, key_name) ==
    IF key_name = "openai_api_key" THEN ResolveOpenAI(cu).openai_api_key
    ELSE IF key_name = "trello_api_key" THEN ResolveTrello(cu).trello_api_key
    ELSE ResolveTrello(cu).trello_token

\* `if value: set_secret(owner, key_name, value)`, on a [table, nextId] pair
SaveIf(st, value, owner, key_name) ==
    IF Truthy(value)
    THEN LET r == set_secret(st.table, st.nextId, masterKey, owner, key_name, value)
         IN  [table |-> r.table, nextId |-> r.nextId]
    ELSE st

SaveCompanyIf(st, value, owner, key_name) ==
    IF Truthy(value)
    THEN LET r == set_company_secret(st.table, st.nextId, masterKey, owner, key_name,
                                     value)
         IN  [table |-> r.table, nextId |-> r.nextId]
    ELSE st

\* "Save as User Credentials"
SaveUserCredentials(s, api_key, trello_key, trello_token) ==
    /\ current_user[s] /= NoUser
    /\ sets < MaxSaves
    /\ LET id == current_user[s].id
           s0 == [table |-> user_secrets, nextId |-> nextId]
           s1 == SaveIf(s0, api_key, id, "openai_api_key")
           s2 == SaveIf(s1, trello_key, id, "trello_api_key")
           s3 == SaveIf(s2, trello_token, id, "trello_token")
       IN  /\ user_secrets' = s3.table
           /\ nextId' = s3.nextId
    /\ sets' = sets + 1
    /\ UNCHANGED <<appVars, companies, users, login_tokens, company_secrets, clockVars,
                   loginVars, masterKey, lastPlain, rt, ret, concVars>>

\* Mutant: the button is enabled for every logged-in user
CompanySaveEnabled_any(cu) == TRUE

\* The button is disabled unless the session's user is an admin
CompanySaveEnabled(cu) == cu.role = "admin"

\* "Save as Company Credentials"
SaveCompanyCredentials(s, api_key, trello_key, trello_token) ==
    /\ current_user[s] /= NoUser
    /\ CompanySaveEnabled(current_user[s])
    /\ sets < MaxSaves
    /\ LET id == current_user[s].company_id
           s0 == [table |-> company_secrets, nextId |-> nextId]
           s1 == SaveCompanyIf(s0, api_key, id, "openai_api_key")
           s2 == SaveCompanyIf(s1, trello_key, id, "trello_api_key")
           s3 == SaveCompanyIf(s2, trello_token, id, "trello_token")
       IN  /\ company_secrets' = s3.table
           /\ nextId' = s3.nextId
    /\ sets' = sets + 1
    /\ UNCHANGED <<appVars, companies, users, login_tokens, user_secrets, clockVars,
                   loginVars, masterKey, lastPlain, rt, ret, concVars>>

NextCred ==
    \/ \E s \in Sessions, e \in CredEmails : SupabaseLogin(s, e)
    \/ \E s \in Sessions, a \in Inputs, k \in Inputs, t \in Inputs :
          SaveUserCredentials(s, a, k, t)
    \/ \E s \in Sessions, a \in Inputs, k \in Inputs, t \in Inputs :
          SaveCompanyCredentials(s, a, k, t)

SpecCred == Init /\ [][NextCred]_vars

\* C1 (fails for the two Trello keys, which ResolveTrello takes from the
\* company only as a pair): for every logged-in principal and each of the three
\* key names on its own, the resolved credential is the company's value
\* whenever the company has a value for that key, and the user's own value
\* only when the company has none.
C1_TenantPrecedence ==
    \A s \in Sessions : current_user[s] /= NoUser =>
        \A k \in KeyNames :
            LET cu == current_user[s]
                tenant == get_company_secret_value(company_secrets, masterKey,
                                                   cu.company_id, k)
                own == get_secret(user_secrets, masterKey, cu.id, k)
            IN  Resolved(cu, k) = IF tenant /= None THEN tenant ELSE own

----------------------------------------------------------------------------
(* SpecConc: two workers (two Streamlit script runs, each with its own     *)
(* connection) run the functions of src/src/db.py statement by statement.  *)
(* No function takes a lock or uses SELECT ... FOR UPDATE, so a select     *)
(* sees what is committed when it runs, and the function's one insert or   *)
(* update commits with the `with engine.begin()` block that it ends.  A    *)
(* unique constraint that an insert would break raises IntegrityError.     *)

ConcEmails == { Email("a", "acme.com"), Email("b", "acme.com") }
ConcKeys == {"openai_api_key"}
ConcPlaintexts == {"k1", "k2"}
IntegrityError == [error |-> "IntegrityError"]

Idle(p) == pc[p] = "idle"
Goto(p, label, l) ==
    /\ pc' = [pc EXCEPT ![p] = label]
    /\ loc' = [loc EXCEPT ![p] = l]
Return(p, value) ==
    /\ pc' = [pc EXCEPT ![p] = "idle"]
    /\ loc' = [loc EXCEPT ![p] = [op |-> loc[p].op, args |-> loc[p].args,
                                  result |-> value]]

\* generate_login_token(email) is called (auth.py 48-51)
Begin_generate_login_token(p, email) ==
    /\ Idle(p)
    /\ calls < MaxCalls
    /\ calls' = calls + 1
    /\ Goto(p, "gu_select",
            [op |-> "generate_login_token", args |-> email, email |-> email,
             company_name |-> CompanyNameFor(email),
             domain |-> _extract_domain_from_email(email)])
    /\ UNCHANGED <<appVars, dbVars, clockVars, loginVars, storeVars, ret>>

\* get_or_create_user: select by email (db.py 170-172)
gu_select(p) ==
    /\ pc[p] = "gu_select"
    /\ LET row == FetchOne({u \in users : u.email = loc[p].email})
       IN  IF row /= NoRow
           THEN Goto(p, "tok_insert", [loc[p] EXCEPT !.op = "generate_login_token"]
                                        @@ [user |-> row])
           ELSE Goto(p, "gc_select", loc[p])
    /\ UNCHANGED <<appVars, dbVars, clockVars, loginVars, storeVars, ret, calls>>

\* get_or_create_company: the selects by domain and by name (db.py 131-146)
gc_select(p) ==
    /\ pc[p] = "gc_select"
    /\ LET l == loc[p]
           byDomain == FetchOne({c \in companies : c.domain = l.domain})
           byName == FetchOne({c \in companies : c.name = l.company_name})
       IN  IF Truthy(l.domain) /\ byDomain /= NoRow
           THEN /\ Goto(p, "gu_count", l @@ [company |-> byDomain])
                /\ UNCHANGED companies
           ELSE IF byName /= NoRow
           THEN IF Truthy(l.domain) /\ ~Truthy(byName.domain)
                THEN LET upd == [byName EXCEPT !.domain = l.domain]
                     IN  /\ companies' = (companies \ {byName}) \cup {upd}
                         /\ Goto(p, "gu_count", l @@ [company |-> upd])
                ELSE /\ Goto(p, "gu_count", l @@ [company |-> byName])
                     /\ UNCHANGED companies
           ELSE /\ Goto(p, "gc_insert", l)
                /\ UNCHANGED companies
    /\ UNCHANGED <<appVars, users, login_tokens, user_secrets, company_secrets, nextId,
                   clockVars, loginVars, storeVars, ret, calls>>

\* get_or_create_company: the insert (db.py 148-157); name and domain are unique
gc_insert(p) ==
    /\ pc[p] = "gc_insert"
    /\ LET l == loc[p]
           clash == \E c \in companies :
                       \/ c.name = l.company_name
                       \/ (l.domain /= None /\ c.domain = l.domain)
           new == [id |-> nextId, name |-> l.company_name, domain |-> l.domain]
       IN  IF clash
           THEN /\ Return(p, IntegrityError)
                /\ UNCHANGED <<companies, nextId>>
           ELSE /\ companies' = companies \cup {new}
                /\ nextId' = nextId + 1
                /\ Goto(p, "gu_count", l @@ [company |-> new])
    /\ UNCHANGED <<appVars, users, login_tokens, user_secrets, company_secrets,
                   clockVars, loginVars, storeVars, ret, calls>>

\* get_or_create_user: the members of the company are counted (db.py 174-177)
gu_count(p) ==
    /\ pc[p] = "gu_count"
    /\ LET existing_count == {u \in users : u.company_id = loc[p].company.id}
       IN  Goto(p, "gu_insert", loc[p] @@ [role |-> RoleFor(existing_count)])
    /\ UNCHANGED <<appVars, dbVars, clockVars, loginVars, storeVars, ret, calls>>

\* get_or_create_user: the insert (db.py 178-188); email is unique
gu_insert(p) ==
    /\ pc[p] = "gu_insert"
    /\ LET l == loc[p]
           new == [id |-> nextId, email |-> l.email, company_id |-> l.company.id,
                   role |-> l.role]
       IN  IF \E u \in users : u.email = l.email
           THEN /\ Return(p, IntegrityError)
                /\ UNCHANGED <<users, nextId>>
           ELSE /\ users' = users \cup {new}
                /\ nextId' = nextId + 1
                /\ Goto(p, "tok_insert", l @@ [user |-> new])
    /\ UNCHANGED <<appVars, companies, login_tokens, user_secrets, company_secrets,
                   clockVars, loginVars, storeVars, ret, calls>>

\* generate_login_token: the token is drawn and its row inserted (auth.py 52-56)
tok_insert(p) ==
    /\ pc[p] = "tok_insert"
    /\ login_tokens' = create_login_token(login_tokens, nextId + 1, loc[p].user.id,
                                          _hash_token(nextId), now + TtlMinutes)
    /\ nextId' = nextId + 2
    /\ Return(p, [raw_token |-> nextId, user |-> loc[p].user])
    /\ UNCHANGED <<appVars, companies, users, user_secrets, company_secrets,
                   clockVars, loginVars, storeVars, ret, calls>>

\* verify_login_token(raw_token) is called (auth.py 59-61)
Begin_verify_login_token(p, raw) ==
    /\ Idle(p)
    /\ calls < MaxCalls
    /\ calls' = calls + 1
    /\ Goto(p, "ut_select", [op |-> "verify_login_token", args |-> raw,
                             token_hash |-> _hash_token(raw)])
    /\ UNCHANGED <<appVars, dbVars, clockVars, loginVars, storeVars, ret>>

\* use_login_token: the select and the three tests (db.py 210-218)
ut_select(p) ==
    /\ pc[p] = "ut_select"
    /\ LET token_row == FetchOne({k \in login_tokens :
                                     k.token_hash = loc[p].token_hash})
       IN  IF token_row = NoRow THEN Return(p, NoRow)
           ELSE IF token_row.used_at /= Null THEN Return(p, NoRow)
           ELSE IF Expired(token_row, now) THEN Return(p, NoRow)
           ELSE Goto(p, "ut_update", loc[p] @@ [token_row |-> token_row])
    /\ UNCHANGED <<appVars, dbVars, clockVars, loginVars, storeVars, ret, calls>>

\* use_login_token: used_at is set where id = token_row.id (db.py 219-225)
ut_update(p) ==
    /\ pc[p] = "ut_update"
    /\ login_tokens' = {IF k.id = loc[p].token_row.id
                        THEN [k EXCEPT !.used_at = now] ELSE k : k \in login_tokens}
    /\ Return(p, FetchOne({u \in users : u.id = loc[p].token_row.user_id}))
    /\ UNCHANGED <<appVars, companies, users, user_secrets, company_secrets, nextId,
                   clockVars, loginVars, storeVars, ret, calls>>

\* set_secret / set_company_secret is called (secret_store.py 14-19, 34-40)
Begin_set_secret(p, table, owner, key_name, plaintext) ==
    /\ Idle(p)
    /\ calls < MaxCalls
    /\ calls' = calls + 1
    /\ Goto(p, "up_select",
            [op |-> IF table = "user" THEN "set_secret" ELSE "set_company_secret",
             args |-> <<owner, key_name, plaintext>>,
             table |-> table, owner |-> owner, key_name |-> key_name,
             encrypted_value |-> FernetEncrypt(masterKey, plaintext)])
    /\ UNCHANGED <<appVars, dbVars, clockVars, loginVars, storeVars, ret>>

\* upsert_user_secret / upsert_company_secret: the select (db.py 268-273, 310-315);
\* fetchone() of several matching rows returns any of them
up_select(p) ==
    /\ pc[p] = "up_select"
    /\ LET matching == {r \in SecretTable(loc[p].table) :
                           r.owner = loc[p].owner /\ r.key_name = loc[p].key_name}
       IN  \E existing \in (IF matching = {} THEN {NoRow} ELSE matching) :
               Goto(p, "up_write", loc[p] @@ [existing |-> existing])
    /\ UNCHANGED <<appVars, dbVars, clockVars, loginVars, storeVars, ret, calls>>

\* upsert_user_secret / upsert_company_secret: the update where id = existing.id,
\* or the insert (db.py 274-292, 316-334); neither table has a unique constraint
\* on (owner, key_name)
up_write(p) ==
    /\ pc[p] = "up_write"
    /\ LET l == loc[p]
           tbl == SecretTable(l.table)
           new == [id |-> nextId, owner |-> l.owner, key_name |-> l.key_name,
                   encrypted_value |-> l.encrypted_value]
           after == IF l.existing /= NoRow
                    THEN {IF r.id = l.existing.id
                          THEN [r EXCEPT !.encrypted_value = l.encrypted_value]
                          ELSE r : r \in tbl}
                    ELSE tbl \cup {new}
       IN  /\ IF l.table = "user"
              THEN user_secrets' = after /\ UNCHANGED company_secrets
              ELSE company_secrets' = after /\ UNCHANGED user_secrets
           /\ nextId' = IF l.existing /= NoRow THEN nextId ELSE nextId + 1
           /\ Return(p, IF l.existing /= NoRow THEN l.existing.id ELSE nextId)
    /\ UNCHANGED <<appVars, companies, users, login_tokens, clockVars, loginVars, storeVars,
                   ret, calls>>

NextConc ==
    \/ \E p \in Procs, e \in ConcEmails : Begin_generate_login_token(p, e)
    \/ \E p \in Procs : gu_select(p)
    \/ \E p \in Procs : gc_select(p)
    \/ \E p \in Procs : gc_insert(p)
    \/ \E p \in Procs : gu_count(p)
    \/ \E p \in Procs : gu_insert(p)
    \/ \E p \in Procs : tok_insert(p)
    \/ \E p \in Procs, raw \in IssuedTokens : Begin_verify_login_token(p, raw)
    \/ \E p \in Procs : ut_select(p)
    \/ \E p \in Procs : ut_update(p)
    \/ \E p \in Procs, c \in companies, k \in ConcKeys, v \in ConcPlaintexts :
          Begin_set_secret(p, "company", c.id, k, v)
    \/ \E p \in Procs, u \in users, k \in ConcKeys, v \in ConcPlaintexts :
          Begin_set_secret(p, "user", u.id, k, v)
    \/ \E p \in Procs : up_select(p)
    \/ \E p \in Procs : up_write(p)

SpecConc == Init /\ [][NextConc]_vars

\* Both workers have finished a call of `op`
BothDid(op) == \A p \in Procs : Idle(p) /\ loc[p] /= NoCall /\ loc[p].op = op

\* C3 (fails): whatever the interleaving of two set_company_secret (or two
\* set_secret) calls for one (scope id, key_name), the table never holds two
\* rows for that pair, and once both calls have returned it holds exactly one,
\* with one of the two written values.
C3_ConcurrentUpsertOneRow ==
    \A name \in {"user", "company"} :
        /\ \A r1, r2 \in SecretTable(name) :
              (r1.owner = r2.owner /\ r1.key_name = r2.key_name) => r1 = r2
        /\ (/\ BothDid(IF name = "user" THEN "set_secret" ELSE "set_company_secret")
            /\ loc["w1"].args[1] = loc["w2"].args[1]
            /\ loc["w1"].args[2] = loc["w2"].args[2]) =>
              \E r \in SecretTable(name) :
                  /\ r.owner = loc["w1"].args[1]
                  /\ r.key_name = loc["w1"].args[2]
                  /\ r.encrypted_value.pt \in {loc["w1"].args[3], loc["w2"].args[3]}

\* C6 (fails): of two verify_login_token calls with the same valid raw token,
\* at most one returns the principal, whatever the interleaving.
C6_AtMostOneVerifies ==
    (BothDid("verify_login_token") /\ loc["w1"].args = loc["w2"].args) =>
        ~(loc["w1"].result /= NoRow /\ loc["w2"].result /= NoRow)

\* C10 (fails): when two get_or_create_user calls (made by generate_login_token)
\* create two distinct users of one tenant that had no user before, exactly
\* one of the two is admin and the other is member.
C10_OneAdminOfTwo ==
    (/\ BothDid("generate_login_token")
     /\ loc["w1"].result /= IntegrityError
     /\ loc["w2"].result /= IntegrityError
     /\ loc["w1"].result.user.id /= loc["w2"].result.user.id
     /\ loc["w1"].result.user.company_id = loc["w2"].result.user.company_id
     /\ UsersOf(loc["w1"].result.user.company_id)
          = {loc["w1"].result.user, loc["w2"].result.user}) =>
        {loc["w1"].result.user.role, loc["w2"].result.user.role} = {"admin", "member"}

----------------------------------------------------------------------------
(* SpecTenants: two workers run get_or_create_company (src/src/db.py       *)
(* 127-157) statement by statement, for the names and domains that         *)
(* get_or_create_user and direct callers pass.  The companies table        *)
(* declares name and domain unique (db.py 42-43), so the database rejects  *)
(* an insert or update that would repeat a name or a non-null domain.      *)

TenantNames == {"Acme", "Beta"}
TenantDomains == {None, "acme.com", "acme.org"}

\* Mutant: only the name column is declared unique
UniqueViolation_name_only(comps, row) ==
    \E c \in comps : c.id /= row.id /\ c.name = row.name

\* The unique constraints of companies.name and companies.domain: would `row`
\* repeat the name or the non-null domain of another row of comps?
UniqueViolation(comps, row) ==
    \E c \in comps :
        /\ c.id /= row.id
        /\ \/ c.name = row.name
           \/ (row.domain /= None /\ c.domain = row.domain)

Begin_get_or_create_company(p, name, domain) ==
    /\ Idle(p)
    /\ calls < MaxCalls
    /\ calls' = calls + 1
    /\ Goto(p, IF Truthy(domain) THEN "co_by_domain" ELSE "co_by_name",
            [op |-> "get_or_create_company", args |-> <<name, domain>>,
             name |-> name, domain |-> domain])
    /\ UNCHANGED <<appVars, dbVars, clockVars, loginVars, storeVars, ret>>

\* select ... where domain == domain (db.py 131-134)
co_by_domain(p) ==
    /\ pc[p] = "co_by_domain"
    /\ LET row == FetchOne({c \in companies : c.domain = loc[p].domain})
       IN  IF row /= NoRow THEN Return(p, row) ELSE Goto(p, "co_by_name", loc[p])
    /\ UNCHANGED <<appVars, dbVars, clockVars, loginVars, storeVars, ret, calls>>

\* select ... where name == name (db.py 136-137, 139, 146)
co_by_name(p) ==
    /\ pc[p] = "co_by_name"
    /\ LET l == loc[p]
           row == FetchOne({c \in companies : c.name = l.name})
       IN  IF row /= NoRow
           THEN IF Truthy(l.domain) /\ ~Truthy(row.domain)
                THEN Goto(p, "co_update", l @@ [row |-> row])
                ELSE Return(p, row)
           ELSE Goto(p, "co_insert", l)
    /\ UNCHANGED <<appVars, dbVars, clockVars, loginVars, storeVars, ret, calls>>

\* update ... where id == row.id values(domain=domain), then the row is read
\* again (db.py 140-146)
co_update(p) ==
    /\ pc[p] = "co_update"
    /\ LET l == loc[p]
           cur == FetchOne({c \in companies : c.id = l.row.id})
           upd == [cur EXCEPT !.domain = l.domain]
       IN  IF UniqueViolation(companies, upd)
           THEN /\ Return(p, IntegrityError)
                /\ UNCHANGED companies
           ELSE /\ companies' = (companies \ {cur}) \cup {upd}
                /\ Return(p, upd)
    /\ UNCHANGED <<appVars, users, login_tokens, user_secrets, company_secrets, nextId,
                   clockVars, loginVars, storeVars, ret, calls>>

\* insert(companies), then the row is read again (db.py 148-157)
co_insert(p) ==
    /\ pc[p] = "co_insert"
    /\ LET l == loc[p]
           new == [id |-> nextId, name |-> l.name, domain |-> l.domain]
       IN  IF UniqueViolation(companies, new)
           THEN /\ Return(p, IntegrityError)
                /\ UNCHANGED <<companies, nextId>>
           ELSE /\ companies' = companies \cup {new}
                /\ nextId' = nextId + 1
                /\ Return(p, new)
    /\ UNCHANGED <<appVars, users, login_tokens, user_secrets, company_secrets,
                   clockVars, loginVars, storeVars, ret, calls>>

NextTenants ==
    \/ \E p \in Procs, n \in TenantNames, d \in TenantDomains :
          Begin_get_or_create_company(p, n, d)
    \/ \E p \in Procs : co_by_domain(p)
    \/ \E p \in Procs : co_by_name(p)
    \/ \E p \in Procs : co_update(p)
    \/ \E p \in Procs : co_insert(p)

SpecTenants == Init /\ [][NextTenants]_vars

\* C11: in every reachable state, whatever the order or interleaving of the
\* get_or_create_company calls (made directly or by get_or_create_user), no
\* two rows of companies have the same non-null domain.
C11_UniqueDomain ==
    \A c1, c2 \in companies :
        (c1.domain /= None /\ c1.domain = c2.domain) => c1 = c2

\* C11 witness: two tenants with different domains exist and the database has
\* refused the write of a call whose domain a tenant of another name holds
C11_Witness ==
    /\ \E c1, c2 \in companies :
          c1.domain /= None /\ c2.domain /= None /\ c1.domain /= c2.domain
    /\ \E p \in Procs :
          /\ Idle(p) /\ loc[p] /= NoCall
          /\ loc[p].op = "get_or_create_company"
          /\ loc[p].result = IntegrityError
          /\ \E c \in companies :
                c.domain = loc[p].args[2] /\ c.name /= loc[p].args[1]

----------------------------------------------------------------------------
(* src/src/storage.py and the documents / audit_logs inserts of            *)
(* src/src/db.py 228-262                                                   *)

\* An uploaded file: its name as a sequence of characters (text runs, "/"
\* and the NUL character) and its bytes
NUL == "<NUL>"
File(name, bytes) == [name |-> name, bytes |-> bytes]

RECURSIVE basename(_)
\* os.path.basename: what follows the last "/"
basename(name) ==
    IF name = <<>> THEN <<>>
    ELSE IF \E i \in 1..Len(name) : name[i] = "/"
    THEN basename(Tail(name))
    ELSE name

\* _safe_filename: os.path.basename(name).replace("\x00", "")
_safe_filename(name) == SelectSeq(basename(name), LAMBDA ch : ch /= NUL)

\* hashlib.sha256(data).hexdigest(): one digest per byte string
_compute_sha256(data) == [sha256 |-> data]

BaseDir == "uploads"
Bucket == "s3://bucket"

\* The target path: f"s3://{s3_bucket}/{company_id}/{user_id}/{sha256}/{filename}"
\* or os.path.join(base_dir, company_id, user_id, sha256, filename)
TargetPath(use_s3, company_id, user_id, sha256, filename) ==
    [root |-> IF use_s3 THEN Bucket ELSE BaseDir,
     key |-> <<company_id, user_id, sha256, filename>>]

\* put_object / open(target_path, "wb").write: the blob at path is replaced
WriteBlob(store, path, bytes) ==
    [p \in DOMAIN store \cup {path} |-> IF p = path THEN bytes ELSE store[p]]

\* Mutant: a file whose content the ledger already has gets no new row
insert_document_dedup(docs, id, company_id, user_id, filename, path, size, sha256) ==
    LET same == {d \in docs : d.path = path /\ d.sha256 = sha256}
        new == [id |-> id, company_id |-> company_id, user_id |-> user_id,
                filename |-> filename, path |-> path, size |-> size,
                sha256 |-> sha256]
    IN  IF same /= {}
        THEN [documents |-> docs, doc_id |-> (CHOOSE d \in same : TRUE).id,
              nextId |-> id]
        ELSE [documents |-> docs \cup {new}, doc_id |-> id, nextId |-> id + 1]

insert_document(docs, id, company_id, user_id, filename, path, size, sha256) ==
    LET new == [id |-> id, company_id |-> company_id, user_id |-> user_id,
                filename |-> filename, path |-> path, size |-> size,
                sha256 |-> sha256]
    IN  [documents |-> docs \cup {new}, doc_id |-> id, nextId |-> id + 1]

insert_audit_log(logs, id, company_id, user_id, action, doc_id, meta) ==
    LET new == [id |-> id, company_id |-> company_id, user_id |-> user_id,
                action |-> action, doc_id |-> doc_id, meta |-> meta]
    IN  [audit_logs |-> logs \cup {new}, log_id |-> id, nextId |-> id + 1]

\* A collaborator of save_uploaded_files raises while file number `at` is
\* handled: the blob write, the documents insert or the audit_logs insert
NoFault == [at |-> 0, step |-> "none"]
FaultSteps == {"write", "insert_document", "insert_audit_log"}

RECURSIVE SaveFrom(_, _, _, _, _, _, _)
\* The loop of save_uploaded_files from file number i on (storage.py 41-83);
\* st holds the tables, the blobs, the next id and the list `saved`
SaveFrom(i, st, uploaded_files, company_id, user_id, use_s3, fault) ==
    IF i > Len(uploaded_files) THEN st
    ELSE
    LET uploaded_file == uploaded_files[i]
        filename == _safe_filename(uploaded_file.name)
        file_bytes == uploaded_file.bytes
        sha256 == _compute_sha256(file_bytes)
        target_path == TargetPath(use_s3, company_id, user_id, sha256, filename)
        raises(step) == fault.at = i /\ fault.step = step
        written == [st EXCEPT !.blobs = WriteBlob(st.blobs, target_path, file_bytes)]
        doc == insert_document(written.documents, written.nextId, company_id, user_id,
                               filename, target_path, Len(file_bytes), sha256)
        withDoc == [written EXCEPT !.documents = doc.documents, !.nextId = doc.nextId]
        log == insert_audit_log(withDoc.audit_logs, withDoc.nextId, company_id, user_id,
                                "upload_document", doc.doc_id,
                                [filename |-> filename, path |-> target_path])
        withLog == [withDoc EXCEPT !.audit_logs = log.audit_logs, !.nextId = log.nextId,
                        !.saved = Append(@, [doc_id |-> doc.doc_id, filename |-> filename,
                                             path |-> target_path, sha256 |-> sha256,
                                             size |-> Len(file_bytes)])]
    IN  IF raises("write") THEN [st EXCEPT !.raised = TRUE]
        ELSE IF raises("insert_document") THEN [written EXCEPT !.raised = TRUE]
        ELSE IF raises("insert_audit_log") THEN [withDoc EXCEPT !.raised = TRUE]
        ELSE SaveFrom(i + 1, withLog, uploaded_files, company_id, user_id, use_s3, fault)

save_uploaded_files(docs, logs, store, id, uploaded_files, company_id, user_id, use_s3, fault) ==
    SaveFrom(1, [documents |-> docs, audit_logs |-> logs, blobs |-> store,
                 nextId |-> id, saved |-> <<>>, raised |-> FALSE],
             uploaded_files, company_id, user_id, use_s3, fault)

----------------------------------------------------------------------------
(* SpecDocs: save_uploaded_files called for logged-in users, one call at   *)
(* a time (src/app.py 583-590 and 740-748)                                 *)

MaxUploads == 2

UploadFiles ==
    { File(<<"a.txt">>, <<1>>), File(<<"d", "/", "a", NUL, ".txt">>, <<1>>),
      File(<<"a.txt">>, <<1, 2>>) }
\* One file, the same file twice, or two files with the same bytes
UploadSets ==
    {<<f>> : f \in UploadFiles} \cup {<<f, f>> : f \in UploadFiles}
        \cup {<<f, g>> \in UploadFiles \X UploadFiles : f /= g /\ f.bytes = g.bytes}
\* A failure is drawn for the last file of the call: the files before it
\* are handled in full, none comes after it
Faults(files) == {NoFault} \cup {[at |-> Len(files), step |-> s] : s \in FaultSteps}

AllFaults == UNION {Faults(files) : files \in UploadSets}

\* The deployment has the S3 variables set or not; fixed before the first upload
SetStorageEnv(configured) ==
    /\ calls = 0 /\ documents = {}
    /\ s3_client /= configured
    /\ s3_client' = configured
    /\ UNCHANGED <<dbVars, clockVars, loginVars, storeVars, ret, concVars,
                   documents, audit_logs, blobs, lastSave, agentVars>>

\* A user logs in before anything is uploaded
DocsLogin(email) ==
    /\ calls = 0
    /\ StoreCreateUser(email)

CallSaveUploadedFiles(u, files, fault) ==
    /\ fault \in Faults(files)
    /\ calls < MaxUploads
    /\ calls' = calls + 1
    /\ LET r == save_uploaded_files(documents, audit_logs, blobs, nextId, files,
                                    u.company_id, u.id, s3_client, fault)
       IN  /\ documents' = r.documents
           /\ audit_logs' = r.audit_logs
           /\ blobs' = r.blobs
           /\ nextId' = r.nextId
           /\ lastSave' = [company_id |-> u.company_id, user_id |-> u.id,
                           files |-> files, raised |-> r.raised, saved |-> r.saved,
                           ids_before |-> {d.id : d \in documents},
                           blobs_before |-> blobs]
    /\ UNCHANGED <<companies, users, login_tokens, user_secrets, company_secrets,
                   clockVars, loginVars, storeVars, ret, pc, loc, s3_client, agentVars>>

NextDocs ==
    \/ \E e \in StoreEmails : DocsLogin(e)
    \/ \E b \in BOOLEAN : SetStorageEnv(b)
    \/ \E u \in users, files \in UploadSets, fault \in AllFaults :
          CallSaveUploadedFiles(u, files, fault)

SpecDocs == Init /\ [][NextDocs]_vars

DocRow(doc_id) == FetchOne({d \in documents : d.id = doc_id})
\* The rows the ledger had before the last call for the same tenant,
\* principal, filename and bytes as the file that `rec` was saved for
EarlierRows(rec) ==
    {d \in documents :
        /\ d.id \in lastSave.ids_before
        /\ d.company_id = lastSave.company_id /\ d.user_id = lastSave.user_id
        /\ d.filename = rec.filename /\ d.sha256 = rec.sha256}

\* C12: after a save_uploaded_files call that returned, every file of the call
\* has a ledger row of its own that did not exist before, with the sha256 of
\* its bytes and the path {tenant_id}/{principal_id}/{sha256}/{filename} under
\* the storage root; each earlier row for the same tenant, principal, filename
\* and bytes is another row with the same sha256 and the same path, and the
\* blob at that path holds the same bytes as before the call.
C12_SameBytesTwice ==
    (lastSave /= NoCall /\ ~lastSave.raised) =>
        /\ Len(lastSave.saved) = Len(lastSave.files)
        /\ \A i \in 1..Len(lastSave.saved) :
              LET rec == lastSave.saved[i]
                  f == lastSave.files[i]
                  row == DocRow(rec.doc_id)
              IN  /\ row /= NoRow
                  /\ row.id \notin lastSave.ids_before
                  /\ \A j \in 1..Len(lastSave.saved) :
                        j /= i => lastSave.saved[j].doc_id /= rec.doc_id
                  /\ row.sha256 = _compute_sha256(f.bytes)
                  /\ row.path.key = <<lastSave.company_id, lastSave.user_id,
                                      _compute_sha256(f.bytes), _safe_filename(f.name)>>
                  /\ blobs[row.path] = f.bytes
                  /\ \A old \in EarlierRows(rec) :
                        /\ old.id /= row.id
                        /\ old.sha256 = row.sha256
                        /\ old.path = row.path
                        /\ lastSave.blobs_before[old.path] = blobs[old.path]

\* C12 witness: the second call for one file has returned: the ledger holds
\* two rows for it and the blob store one blob
C12_Witness ==
    /\ lastSave /= NoCall /\ ~lastSave.raised
    /\ Len(lastSave.files) = 1
    /\ EarlierRows(lastSave.saved[1]) /= {}
    /\ Cardinality(documents) = 2
    /\ Cardinality(DOMAIN blobs) = 1

----------------------------------------------------------------------------
(* The agent tools of src/src/tools.py and what they call: the vector      *)
(* store, the board client (src/src/trello_client.py), the LLM and the     *)
(* session-state callback of src/app.py 408-421.  Texts are the source's   *)
(* without emoji and markdown emphasis.                                    *)

\* A Python call ends by returning a value or by raising
Returns(value) == [kind |-> "return", value |-> value]
Raises(msg) == [kind |-> "raise", msg |-> msg]

\* Mutant: the except clause lets the exception through
Catch_reraise(prefix, r) == r

\* try: ... except Exception as e: return f"{prefix}{str(e)}"
Catch(prefix, r) == IF r.kind = "raise" THEN Returns(prefix \o r.msg) ELSE r

\* st.session_state as a dictionary: a function from the keys it holds
Has(d, key) == key \in DOMAIN d
Get(d, key, default) == IF key \in DOMAIN d THEN d[key] ELSE default
Put(d, key, value) == [k \in DOMAIN d \cup {key} |-> IF k = key THEN value ELSE d[k]]
Pop(d, key) == [k \in DOMAIN d \ {key} |-> d[k]]

\* A chunk of the index: Document(page_content, metadata)
Doc(page_content, source, chunk_index, total_chunks) ==
    [page_content |-> page_content, source |-> source, chunk_index |-> chunk_index,
     total_chunks |-> total_chunks]
NoStore == [none |-> TRUE]
NoLLM == [none |-> TRUE]

RECURSIVE Take(_, _)
Take(seq, k) == IF k = 0 \/ seq = <<>> THEN <<>> ELSE <<Head(seq)>> \o Take(Tail(seq), k - 1)

\* vector_store.similarity_search(query, k): the search raises, finds nothing,
\* or returns the at most k nearest chunks of this store (docs is kept in
\* the order of the ranking)
SearchOutcomes == {"raise", "empty", "nearest"}
similarity_search(vector_store, query, k, outcome) ==
    IF outcome = "raise" THEN Raises("search failed")
    ELSE IF outcome = "empty" THEN Returns(<<>>)
    ELSE Returns(Take(vector_store.docs, k))

NoDocumentsMessage ==
    "No documents have been uploaded yet. Please ask the user to upload project documents first."
\* Mutant: an empty search result is reported like a missing index
NoRelevantMessage_as_missing(query) == NoDocumentsMessage
\* tools.py 60
NoRelevantMessage(query) == "No relevant information found for query: '" \o query \o "'"

RECURSIVE FormatSources(_, _)
\* The loop of tools.py 62-70 from result number i on (the source name is
\* set in backquotes there, written here as quotes)
FormatSources(results, i) ==
    IF i > Len(results) THEN ""
    ELSE "### Source " \o ToString(i) \o ": '" \o results[i].source \o "'\n"
         \o "**Section:** " \o ToString(results[i].chunk_index + 1) \o " of "
         \o ToString(results[i].total_chunks) \o "\n\n"
         \o "> " \o results[i].page_content \o "\n\n" \o "---\n\n"
         \o FormatSources(results, i + 1)

search_project_documents(vector_store, query, outcome) ==
    IF vector_store = NoStore THEN Returns(NoDocumentsMessage)
    ELSE Catch("Error searching documents: ",
           LET found == similarity_search(vector_store, query, 4, outcome)
           IN  IF found.kind = "raise" THEN found
               ELSE IF found.value = <<>> THEN Returns(NoRelevantMessage(query))
               ELSE Returns("**Found " \o ToString(Len(found.value))
                            \o " relevant sections:**\n\n"
                            \o FormatSources(found.value, 1)
                            \o "*Use the information above to answer the user's question. Always cite the source document names.*"))

\* A Python dict that is iterated (board_data): its entries in insertion order
DictHas(d, key) == \E i \in 1..Len(d) : d[i].key = key
DictGet(d, key) == d[CHOOSE i \in 1..Len(d) : d[i].key = key].value
DictSet(d, key, value) ==
    IF DictHas(d, key)
    THEN [i \in 1..Len(d) |-> IF d[i].key = key THEN [key |-> key, value |-> value]
                                ELSE d[i]]
    ELSE Append(d, [key |-> key, value |-> value])
\* The two kinds of value of board_data: an error text, or a list's cards
Message(text) == [message |-> text]
Cards(cards) == [cards |-> cards]
IsMessage(v) == "message" \in DOMAIN v

\* A card of the lists response; desc and due may be empty, due is a
\* timestamp of which card['due'][:10] is the date
Card(name, desc, date, time) ==
    [name |-> name, desc |-> desc, due |-> [date |-> date, time |-> time]]
CardInfo(card) ==
    "- " \o card.name
    \o (IF card.desc /= "" THEN ": " \o card.desc ELSE "")
    \o (IF card.due.date \o card.due.time /= "" THEN " (Due: " \o card.due.date \o ")"
        ELSE "")

RECURSIVE FormatCards(_)
FormatCards(cards) ==
    IF cards = <<>> THEN <<>> ELSE <<CardInfo(Head(cards))>> \o FormatCards(Tail(cards))

RECURSIVE FormatBoard(_, _)
\* The loop of trello_client.py 50-61: formatted_data[list_name] = cards
FormatBoard(lists_data, formatted_data) ==
    IF lists_data = <<>> THEN formatted_data
    ELSE FormatBoard(Tail(lists_data),
                     DictSet(formatted_data, Head(lists_data).name,
                             Cards(FormatCards(Head(lists_data).cards))))

\* What the two HTTP requests of fetch_board_data do: each succeeds or raises
Http(resolve_ok, lists_ok, lists_data) ==
    [resolve_ok |-> resolve_ok, lists_ok |-> lists_ok, lists_data |-> lists_data]

\* Mutant: a failed request yields an empty board instead of the sentinel
fetch_board_data_empty(board_input, http) ==
    IF ~http.resolve_ok \/ ~http.lists_ok THEN <<>>
    ELSE FormatBoard(http.lists_data, <<>>)

\* TrelloClient.fetch_board_data
fetch_board_data(board_input, http) ==
    IF ~http.resolve_ok
    THEN <<[key |-> "error",
            value |-> Message("Invalid Board ID or credentials: 404 Client Error")]>>
    ELSE IF ~http.lists_ok
    THEN <<[key |-> "error", value |-> Message("500 Server Error")]>>
    ELSE FormatBoard(http.lists_data, <<>>)

RECURSIVE JoinLines(_, _)
\* "".join(f"{x}{end}" for x in lines)
JoinLines(lines, end) ==
    IF lines = <<>> THEN "" ELSE Head(lines) \o end \o JoinLines(Tail(lines), end)

RECURSIVE ReprList(_)
ReprList(cards) ==
    IF cards = <<>> THEN ""
    ELSE "'" \o Head(cards) \o "'" \o (IF Len(cards) > 1 THEN ", " ELSE "")
         \o ReprList(Tail(cards))
\* str(board_data['error'])
StrOf(v) == IF IsMessage(v) THEN v.message ELSE "[" \o ReprList(v.cards) \o "]"

RECURSIVE FormatBoardText(_)
\* The loop of tools.py 101-108
FormatBoardText(board_data) ==
    IF board_data = <<>> THEN ""
    ELSE "### " \o Head(board_data).key \o "\n"
         \o (IF Head(board_data).value.cards /= <<>>
             THEN JoinLines(Head(board_data).value.cards, "\n")
             ELSE "- (No cards)\n")
         \o "\n" \o FormatBoardText(Tail(board_data))

TrelloNotConfigured ==
    "**Trello credentials not configured!** Please enter your Trello API Key and Token in the sidebar."
LLMNotConfigured == "**LLM not configured!** Please ensure OpenAI API key is provided."

fetch_trello_board(trello_api_key, trello_token, board_id_or_url, http) ==
    IF ~Truthy(trello_api_key) \/ ~Truthy(trello_token) THEN Returns(TrelloNotConfigured)
    ELSE Catch("Error connecting to Trello: ",
           LET board_data == fetch_board_data(board_id_or_url, http)
           IN  IF DictHas(board_data, "error")
               THEN Returns("Error fetching Trello data: "
                            \o StrOf(DictGet(board_data, "error")))
               ELSE Returns("**Trello Board Data:**\n\n" \o FormatBoardText(board_data)))

\* response.content of an LLM call: text, with or without a markdown code
\* fence (three backquotes, written here as three quotes)
Content(fenced, text) == [fenced |-> fenced, text |-> text]
Raw(content) ==
    IF content.fenced THEN "'''markdown\n" \o content.text \o "'''" ELSE content.text
\* clean_markdown_display: the fence is removed from both ends
clean_markdown_display(content) == Content(FALSE, content.text)

\* llm.invoke(prompt): raises or answers
LLMOutcome(ok, content) == [ok |-> ok, content |-> content]
invoke(llm, outcome) ==
    IF outcome.ok THEN Returns(outcome.content) ELSE Raises("Connection error.")

\* OutputGenerator.generate_all_formats: save_markdown, save_txt, save_pdf and
\* save_docx are called in this order; `render` says which of them raise
Formats == <<"md", "txt", "pdf", "docx">>
generate_all_formats(content, prefix, render) ==
    IF \E i \in 1..Len(Formats) : Formats[i] \in render
    THEN LET first == CHOOSE i \in 1..Len(Formats) :
                         /\ Formats[i] \in render
                         /\ \A j \in 1..(i - 1) : Formats[j] \notin render
         IN  Raises(IF Formats[first] = "pdf" THEN "PDF generation failed"
                    ELSE "[Errno 28] No space left on device")
    ELSE Returns([f \in {"md", "txt", "pdf", "docx"} |->
                    [prefix |-> prefix, ext |-> f, content |-> content]])

\* set_session_state of app.py: the tools' session_state_callback.  Returns
\* the dictionary it leaves and whether it raised.
set_session_state(d, key, value, render) ==
    LET stored == Put(d, key, value)
        kind == IF key = "current_plan" THEN "plan" ELSE "report"
        files == generate_all_formats(clean_markdown_display(value),
                     IF kind = "plan" THEN "project_plan" ELSE "status_report", render)
    IN  IF key \in {"current_plan", "current_report"} /\ Truthy(Raw(value))
        THEN IF files.kind = "raise"
             THEN [ss |-> stored, result |-> files]
             ELSE [ss |-> Put(Put(stored, kind \o "_files", files.value),
                              "agent_generated_" \o kind, TRUE),
                   result |-> Returns(None)]
        ELSE [ss |-> stored, result |-> Returns(None)]

NoDocumentsForPlan ==
    "**No documents uploaded!** Please upload project documents (PRD, timeline, requirements) before generating a plan."
NoContentMessage == "No document content found. Please upload valid project documents."
DownloadFooter(what) ==
    "\n\n---\n**Download Options Available:** Use the download buttons below to get this "
    \o what \o " as PDF, DOCX, or Markdown."

\* What the collaborators of one tool call do
ToolEnv(search, http, llm_outcome, render) ==
    [search |-> search, http |-> http, llm |-> llm_outcome, render |-> render]

\* generate_project_plan; returns the tool's result, the session state and
\* the collaborators it called
generate_project_plan(vector_store, llm, session_state_callback, additional_instructions, d, env) ==
    IF vector_store = NoStore
    THEN [result |-> Returns(NoDocumentsForPlan), ss |-> d, called |-> {}]
    ELSE IF llm = NoLLM THEN [result |-> Returns(LLMNotConfigured), ss |-> d, called |-> {}]
    ELSE
    LET all_docs == similarity_search(vector_store,
                        "project requirements timeline deliverables team milestones",
                        20, env.search)
        response == invoke(llm, env.llm)
        saved == IF session_state_callback
                 THEN set_session_state(d, "current_plan", response.value, env.render)
                 ELSE [ss |-> d, result |-> Returns(None)]
        body == IF all_docs.kind = "raise" THEN [result |-> all_docs, ss |-> d]
                ELSE IF all_docs.value = <<>>
                THEN [result |-> Returns(NoContentMessage), ss |-> d]
                ELSE IF response.kind = "raise" THEN [result |-> response, ss |-> d]
                ELSE IF saved.result.kind = "raise" THEN saved
                ELSE [result |-> Returns("**Project Plan Generated Successfully!**\n\n"
                                         \o Raw(response.value) \o DownloadFooter("plan")),
                      ss |-> saved.ss]
        called == {"search"}
                  \cup (IF all_docs.kind = "raise" \/ all_docs.value = <<>> THEN {}
                        ELSE {"llm"}
                             \cup (IF response.kind = "return" /\ session_state_callback
                                   THEN {"callback"} ELSE {}))
    IN  [result |-> Catch("Error generating project plan: ", body.result), ss |-> body.ss,
         called |-> called]

\* generate_status_report; returns the tool's result, the session state and
\* the collaborators it called
generate_status_report(trello_api_key, trello_token, llm, session_state_callback, board_id_or_url, d, env) ==
    IF ~Truthy(trello_api_key) \/ ~Truthy(trello_token)
    THEN [result |-> Returns(TrelloNotConfigured), ss |-> d, called |-> {}]
    ELSE IF llm = NoLLM THEN [result |-> Returns(LLMNotConfigured), ss |-> d, called |-> {}]
    ELSE
    LET board_data == fetch_board_data(board_id_or_url, env.http)
        response == invoke(llm, env.llm)
        saved == IF session_state_callback
                 THEN set_session_state(d, "current_report", response.value, env.render)
                 ELSE [ss |-> d, result |-> Returns(None)]
        body == IF DictHas(board_data, "error")
                THEN [result |-> Returns("Error fetching Trello data: "
                                         \o StrOf(DictGet(board_data, "error"))),
                      ss |-> d]
                ELSE IF response.kind = "raise" THEN [result |-> response, ss |-> d]
                ELSE IF saved.result.kind = "raise" THEN saved
                ELSE [result |-> Returns("**Status Report Generated Successfully!**\n\n"
                                         \o Raw(response.value) \o DownloadFooter("report")),
                      ss |-> saved.ss]
        called == {"trello"}
                  \cup (IF DictHas(board_data, "error") THEN {}
                        ELSE {"llm"}
                             \cup (IF response.kind = "return" /\ session_state_callback
                                   THEN {"callback"} ELSE {}))
    IN  [result |-> Catch("Error generating status report: ", body.result), ss |-> body.ss,
         called |-> called]

----------------------------------------------------------------------------
(* AgenticLLMHandler (src/src/llm_handler.py 103-285).  The handler is a   *)
(* record; the executor holds the tools, which hold the values that        *)
(* create_agent_tools captured when the agent was last rebuilt.            *)

max_iterations == 10

NoHandler == [none |-> TRUE]
NoExecutor == [none |-> TRUE]
NoMemory == [none |-> TRUE]

\* ChatOpenAI(model, api_key)
ChatOpenAI(model, api_key) == [model |-> model, api_key |-> api_key]

\* _initialize_llm; llm_ok: the ChatOpenAI constructor does not raise
_initialize_llm(h, llm_ok) ==
    [h EXCEPT !.llm = IF llm_ok THEN ChatOpenAI(h.model, h.api_key) ELSE NoLLM]

\* AgenticLLMHandler.__init__ with OPENAI_API_KEY not set in the environment
\* (session_state_callback: one was passed)
AgenticLLMHandler(api_key, model, trello_api_key, trello_token, session_state_callback, llm_ok) ==
    LET h == [api_key |-> api_key, model |-> model, trello_api_key |-> trello_api_key,
              trello_token |-> trello_token,
              session_state_callback |-> session_state_callback,
              llm |-> NoLLM, agent_executor |-> NoExecutor, memory |-> NoMemory,
              vector_store |-> NoStore]
    IN  IF Truthy(api_key) THEN _initialize_llm(h, llm_ok) ELSE h

\* _rebuild_agent; build_ok: create_tool_calling_agent and AgentExecutor do
\* not raise.  The memory is created before them (llm_handler.py 202-206).
_rebuild_agent(h, build_ok) ==
    IF h.llm = NoLLM THEN h
    ELSE LET tools == [vector_store |-> h.vector_store, llm |-> h.llm,
                       trello_api_key |-> h.trello_api_key,
                       trello_token |-> h.trello_token,
                       session_state_callback |-> h.session_state_callback]
             memory == IF h.memory = NoMemory THEN [messages |-> <<>>] ELSE h.memory
         IN  [h EXCEPT !.memory = memory,
                       !.agent_executor = IF build_ok THEN [tools |-> tools]
                                          ELSE NoExecutor]

set_vector_store(h, vector_store, build_ok) ==
    _rebuild_agent([h EXCEPT !.vector_store = vector_store], build_ok)

clear_memory(h) ==
    IF h.memory /= NoMemory THEN [h EXCEPT !.memory = [messages |-> <<>>]] ELSE h

\* get_chat_history: the messages of the memory as role and content, none
\* when there is no memory
get_chat_history(h) ==
    IF h.memory = NoMemory THEN <<>>
    ELSE [i \in 1..Len(h.memory.messages) |->
            [role |-> IF h.memory.messages[i].type = "human" THEN "user" ELSE "assistant",
             content |-> h.memory.messages[i].content]]

KeyRequired ==
    "**OpenAI API Key Required!** Please enter your API key in the sidebar configuration."
LLMInitFailed == "**Failed to initialize LLM.** Please check your API key."
AgentNotInitialized == "**Agent not initialized.** Please try again."
ConfigurationErrors == {KeyRequired, LLMInitFailed, AgentNotInitialized}
StoppedResponse == "Agent stopped due to max iterations."

\* Mutant: chat without the API key check of llm_handler.py 235-236
chat_precheck_keyless(h, llm_ok, build_ok) ==
    LET h1 == IF h.llm = NoLLM THEN _initialize_llm(h, llm_ok) ELSE h
        h2 == IF h1.agent_executor = NoExecutor THEN _rebuild_agent(h1, build_ok) ELSE h1
    IN  IF h1.llm = NoLLM THEN [h |-> h1, early |-> TRUE, response |-> LLMInitFailed]
        ELSE IF h2.agent_executor = NoExecutor
        THEN [h |-> h2, early |-> TRUE, response |-> AgentNotInitialized]
        ELSE [h |-> h2, early |-> FALSE, response |-> ""]

\* chat up to the executor call (llm_handler.py 235-248): the handler it
\* leaves, and the text it returns if it returns here
chat_precheck(h, llm_ok, build_ok) ==
    LET h1 == IF h.llm = NoLLM THEN _initialize_llm(h, llm_ok) ELSE h
        h2 == IF h1.agent_executor = NoExecutor THEN _rebuild_agent(h1, build_ok) ELSE h1
    IN  IF ~Truthy(h.api_key) THEN [h |-> h, early |-> TRUE, response |-> KeyRequired]
        ELSE IF h1.llm = NoLLM THEN [h |-> h1, early |-> TRUE, response |-> LLMInitFailed]
        ELSE IF h2.agent_executor = NoExecutor
        THEN [h |-> h2, early |-> TRUE, response |-> AgentNotInitialized]
        ELSE [h |-> h2, early |-> FALSE, response |-> ""]

\* The except clause of chat (llm_handler.py 253-257); the messages of this
\* model that hold "api_key" are those of a rejected key
InvalidKeyMessage == "Incorrect API key provided (api_key)"
chat_error(error_msg) ==
    IF error_msg = InvalidKeyMessage
    THEN "**Invalid API Key.** Please check your OpenAI API key in the sidebar."
    ELSE "**Error:** " \o error_msg

\* A tool call the model asks for
ToolNames ==
    {"search_project_documents", "fetch_trello_board", "generate_project_plan",
     "generate_status_report"}
ToolCall(tool, arg) == [tool |-> tool, arg |-> arg]

\* The executor runs one tool with the values its closure holds
run_tool(tools, call, d, env) ==
    IF call.tool = "search_project_documents"
    THEN [result |-> search_project_documents(tools.vector_store, call.arg, env.search),
          ss |-> d,
          called |-> IF tools.vector_store = NoStore THEN {} ELSE {"search"}]
    ELSE IF call.tool = "fetch_trello_board"
    THEN [result |-> fetch_trello_board(tools.trello_api_key, tools.trello_token,
                                         call.arg, env.http),
          ss |-> d,
          called |-> IF Truthy(tools.trello_api_key) /\ Truthy(tools.trello_token)
                     THEN {"trello"} ELSE {}]
    ELSE IF call.tool = "generate_project_plan"
    THEN generate_project_plan(tools.vector_store, tools.llm,
                               tools.session_state_callback, call.arg, d, env)
    ELSE generate_status_report(tools.trello_api_key, tools.trello_token, tools.llm,
                                tools.session_state_callback, call.arg, d, env)

----------------------------------------------------------------------------
(* One agent turn: chat and the AgentExecutor loop it starts                *)
(* (src/src/llm_handler.py 208-219 and 225-257).  create_tool_calling_agent *)
(* builds an agent whose planning step answers with the final text or with *)
(* a list of one or more tool calls; the executor runs the calls of a step *)
(* one after the other, feeds the observations to the next planning step,  *)
(* and counts planning steps against max_iterations.                       *)

MaxTurns == 2
MaxParallel == 2
MaxPlanSteps == 1

TurnIdle == turn.phase \in {"idle", "returned"}
Handler == Get(ss, "agentic_llm", NoHandler)

Queries == {"milestones"}
Boards == {"board1"}
ToolCalls ==
    {ToolCall("search_project_documents", q) : q \in Queries}
        \cup {ToolCall("fetch_trello_board", b) : b \in Boards}
        \cup {ToolCall("generate_project_plan", "")}
        \cup {ToolCall("generate_status_report", b) : b \in Boards}
RECURSIVE CallLists(_)
\* The lists of 1..n tool calls
CallLists(n) ==
    IF n = 0 THEN {}
    ELSE {<<c>> : c \in ToolCalls}
            \cup {Append(l, c) : l \in CallLists(n - 1), c \in ToolCalls}

\* The plan / report part of the session state
Artifacts(d) ==
    [k \in DOMAIN d \cap {"current_plan", "plan_files", "current_report", "report_files",
                          "agent_generated_plan", "agent_generated_report"} |-> d[k]]

\* chat begins: the checks of llm_handler.py 235-248.  The handler they
\* leave, and the turn: it starts its planning, or has its response already.
BeginTurn(caller, h, user_message, d, llm_ok, build_ok) ==
    LET pre == chat_precheck(h, llm_ok, build_ok)
    IN  [h |-> pre.h, turn |->
        [phase |-> IF pre.early THEN "finished" ELSE "planning",
         caller |-> caller, prompt |-> user_message,
         iterations |-> 0, tool_calls |-> 0, queue |-> <<>>,
         response |-> pre.response, saves |-> FALSE, early |-> pre.early,
         stored_plan |-> FALSE, stored_report |-> FALSE,
         start |-> [history |-> get_chat_history(h), artifacts |-> Artifacts(d),
                    no_key |-> ~Truthy(h.api_key),
                    llm_fails |-> h.llm = NoLLM /\ ~llm_ok,
                    build_fails |-> h.agent_executor = NoExecutor /\ ~build_ok]]]

\* What the model answers in a planning step
Finish(output) == [kind |-> "finish", output |-> output, calls |-> <<>>]
Act(requested) == [kind |-> "act", output |-> "", calls |-> requested]
Fail(msg) == [kind |-> "raise", output |-> msg, calls |-> <<>>]
Answers == {"Here is what I found."}
PlanOutcomes(n) ==
    {Finish(a) : a \in Answers} \cup {Act(l) : l \in CallLists(n)}
        \cup {Fail(InvalidKeyMessage), Fail("Connection error.")}

\* One pass of the executor's loop up to the model's answer: the loop ends
\* when max_iterations planning steps have run tools
PlanStep(outcome) ==
    /\ turn.phase = "planning"
    /\ turn' =
         IF turn.iterations >= max_iterations
         THEN [turn EXCEPT !.phase = "finished", !.response = StoppedResponse,
                           !.saves = TRUE]
         ELSE IF outcome.kind = "raise"
         THEN [turn EXCEPT !.phase = "finished", !.response = chat_error(outcome.output)]
         ELSE IF outcome.kind = "finish"
         THEN [turn EXCEPT !.phase = "finished", !.response = outcome.output,
                           !.saves = TRUE]
         ELSE [turn EXCEPT !.phase = "executing", !.queue = outcome.calls]
    /\ lastTool' = NoCall
    /\ UNCHANGED <<dbVars, clockVars, loginVars, storeVars, ret, concVars, docVars,
                   ui, ss, lastRun, kb, completed, turns>>

\* Did this generate_project_plan / generate_status_report call store a
\* non-empty text through the callback?
Stores(tools, call, env) ==
    /\ tools.llm /= NoLLM /\ tools.session_state_callback
    /\ env.llm.ok /\ Truthy(Raw(env.llm.content))
    /\ \/ /\ call.tool = "generate_project_plan"
          /\ tools.vector_store /= NoStore
          /\ env.search = "nearest" /\ tools.vector_store.docs /= <<>>
       \/ /\ call.tool = "generate_status_report"
          /\ Truthy(tools.trello_api_key) /\ Truthy(tools.trello_token)
          /\ ~DictHas(fetch_board_data(call.arg, env.http), "error")

\* The executor runs the next tool call of the step; after the last one the
\* step is counted and the model plans again
ExecTool(env) ==
    /\ turn.phase = "executing"
    /\ LET call == Head(turn.queue)
           tools == Handler.agent_executor.tools
           r == run_tool(tools, call, ss, env)
           rest == Tail(turn.queue)
       IN  /\ ss' = r.ss
           /\ lastTool' = [tool |-> call.tool, arg |-> call.arg, result |-> r.result,
                           vector_store |-> tools.vector_store, env |-> env,
                           session_index |-> Has(ss, "vector_store"),
                           called |-> r.called]
           /\ turn' =
                IF r.result.kind = "raise"
                THEN [turn EXCEPT !.phase = "finished", !.queue = <<>>,
                                  !.tool_calls = @ + 1,
                                  !.response = chat_error(r.result.msg)]
                ELSE [turn EXCEPT
                        !.queue = rest,
                        !.tool_calls = @ + 1,
                        !.iterations = IF rest = <<>> THEN @ + 1 ELSE @,
                        !.phase = IF rest = <<>> THEN "planning" ELSE "executing",
                        !.stored_plan = @ \/ (call.tool = "generate_project_plan"
                                              /\ Stores(tools, call, env)),
                        !.stored_report = @ \/ (call.tool = "generate_status_report"
                                                /\ Stores(tools, call, env))]
    /\ UNCHANGED <<dbVars, clockVars, loginVars, storeVars, ret, concVars, docVars,
                   ui, lastRun, kb, completed, turns>>

\* memory.save_context: the input and the output of a finished executor run
save_context(h, input, output) ==
    [h EXCEPT !.memory.messages = @ \o <<[type |-> "human", content |-> input],
                                         [type |-> "ai", content |-> output]>>]

\* The message the chat tab appends (app.py 962-972)
message_data(response, d) ==
    LET base == [k \in {"role", "content"} |->
                    IF k = "role" THEN "assistant" ELSE response]
        withPlan == IF Get(d, "agent_generated_plan", FALSE) = TRUE
                    THEN Put(base, "has_plan", TRUE) ELSE base
    IN  IF Get(d, "agent_generated_report", FALSE) = TRUE
        THEN Put(withPlan, "has_report", TRUE) ELSE withPlan

\* chat returns.  A finished executor run is saved to the memory.  The chat
\* tab then appends the message and clears the pending prompt (app.py
\* 960-974).
ChatReturn ==
    /\ turn.phase = "finished"
    /\ LET h == IF turn.saves THEN save_context(Handler, turn.prompt, turn.response)
                ELSE Handler
           d == Put(ss, "agentic_llm", h)
       IN  /\ ss' = IF turn.caller = "app"
                    THEN Pop(Put(d, "chat_messages",
                                 Append(d["chat_messages"],
                                        message_data(turn.response, d))),
                             "pending_prompt")
                    ELSE d
           /\ completed' = IF turn.saves
                           THEN Append(completed, [input |-> turn.prompt,
                                                   output |-> turn.response])
                           ELSE completed
           /\ ui' = IF turn.caller = "app" THEN [ui EXCEPT !.rerun = TRUE] ELSE ui
    /\ turn' = [turn EXCEPT !.phase = "returned"]
    /\ lastTool' = NoCall
    /\ UNCHANGED <<dbVars, clockVars, loginVars, storeVars, ret, concVars, docVars,
                   lastRun, kb, turns>>

----------------------------------------------------------------------------
(* The AI Assistant tab of src/app.py for a session that is not logged in  *)
(* to the database (current_user is None, so save_uploaded_files is not    *)
(* called) and with VECTOR_STORE unset (FAISS).  Every user event starts   *)
(* one run of the script; st.rerun() starts the next run with no event.    *)

ApiKeys == {"", "sk-1", "sk-2"}
Models == {"gpt-4o-mini", "gpt-4o"}
TrelloValues == {"", "tr-1"}
Prompts == {"What are the milestones?"}

\* An uploaded file of the AI tab: name, size, and the text read from it
Upload(name, size, text) == [name |-> name, size |-> size, text |-> text]
FileSets ==
    { <<>>, <<Upload("prd.txt", 11, "Milestone 1")>>,
      <<Upload("prd.txt", 11, "Milestone 2")>>,
      <<Upload("plan.txt", 7, "Phase 2")>> }

\* What the collaborators of one script run do: the ChatOpenAI constructor,
\* the agent constructors, the embedding call
RunEnv(llm_ok, build_ok, embed_ok) ==
    [llm_ok |-> llm_ok, build_ok |-> build_ok, embed_ok |-> embed_ok]
RunEnvs ==
    { RunEnv(TRUE, TRUE, TRUE), RunEnv(FALSE, TRUE, TRUE), RunEnv(TRUE, FALSE, TRUE),
      RunEnv(TRUE, TRUE, FALSE) }

NoHash == [none |-> TRUE]
RECURSIVE NameSizes(_)
NameSizes(files) ==
    IF files = <<>> THEN <<>>
    ELSE <<Head(files).name \o ToString(Head(files).size)>> \o NameSizes(Tail(files))
\* hash(tuple(f.name + str(f.size) for f in ai_uploaded_files)), taken as
\* free of collisions between different tuples
files_hash(files) == [hash |-> NameSizes(files)]

RECURSIVE Names(_)
Names(files) == IF files = <<>> THEN <<>> ELSE <<Head(files).name>> \o Names(Tail(files))

RECURSIVE process_files_to_documents(_)
\* One chunk per file that has text (the texts of this model are short)
process_files_to_documents(files) ==
    IF files = <<>> THEN <<>>
    ELSE (IF Head(files).text /= ""
          THEN <<Doc(Head(files).text, Head(files).name, 0, 1)>> ELSE <<>>)
         \o process_files_to_documents(Tail(files))

\* create_vector_store_simple: the store, or that the embedding call raised
create_vector_store_simple(files, api_key, embed_ok) ==
    LET chunks == process_files_to_documents(files)
    IN  IF chunks = <<>> THEN [result |-> Returns(NoStore), embed_calls |-> 0]
        ELSE IF ~embed_ok
        THEN [result |-> Raises("embedding failed"), embed_calls |-> 1]
        ELSE [result |-> Returns([docs |-> chunks]), embed_calls |-> 1]

\* get_agentic_handler (app.py 431-450): the session state it leaves
get_agentic_handler(d, w, llm_ok) ==
    LET current_config == w.api_key \o "_" \o w.model \o "_" \o w.trello_key
                          \o "_" \o w.trello_token
    IN  IF ~Has(d, "agentic_llm") \/ Get(d, "agentic_config", None) /= current_config
        THEN IF Truthy(w.api_key)
             THEN Put(Put(d, "agentic_llm",
                          AgenticLLMHandler(w.api_key, w.model, w.trello_key,
                                            w.trello_token, TRUE, llm_ok)),
                      "agentic_config", current_config)
             ELSE Put(d, "agentic_llm", NoHandler)
        ELSE d

\* Mutant: the fingerprint of the indexed file set is not kept
remember_files_hash_not(d, current_files_hash) == d

\* app.py 760
remember_files_hash(d, current_files_hash) == Put(d, "files_hash", current_files_hash)

\* The auto-indexing of app.py 726-782; d is the session state after
\* get_agentic_handler.  Returns the session state and what the run did.
auto_index(d, w, env) ==
    LET current_files_hash == files_hash(w.files)
        made == create_vector_store_simple(w.files, w.api_key, env.embed_ok)
        stored == Put(remember_files_hash(Put(d, "vector_store", made.result.value),
                                          current_files_hash),
                      "indexed_files", Names(w.files))
        withHandler == get_agentic_handler(stored, w, env.llm_ok)
        current_handler == Get(withHandler, "agentic_llm", NoHandler)
        indexed == IF current_handler /= NoHandler
                   THEN Put(withHandler, "agentic_llm",
                            set_vector_store(current_handler, made.result.value,
                                             env.build_ok))
                   ELSE withHandler
    IN  IF w.files /= <<>>
        THEN IF current_files_hash /= Get(d, "files_hash", NoHash)
             THEN IF ~Truthy(w.api_key)
                  THEN [ss |-> d, embed_calls |-> 0, built |-> FALSE]
                  ELSE IF made.result.kind = "raise" \/ made.result.value = NoStore
                  THEN [ss |-> d, embed_calls |-> made.embed_calls, built |-> FALSE]
                  ELSE [ss |-> indexed, embed_calls |-> made.embed_calls, built |-> TRUE]
             ELSE [ss |-> d, embed_calls |-> 0, built |-> FALSE]
        ELSE [ss |-> IF Has(d, "vector_store")
                     THEN Pop(Pop(Pop(d, "vector_store"), "files_hash"), "indexed_files")
                     ELSE d,
              embed_calls |-> 0, built |-> FALSE]

\* The script from its start to the chat input: get_agentic_handler (453),
\* the chat history (710-711), the auto-indexing
run_script(d, w, env) ==
    LET d1 == get_agentic_handler(d, w, env.llm_ok)
        d2 == IF Has(d1, "chat_messages") THEN d1 ELSE Put(d1, "chat_messages", <<>>)
    IN  auto_index(d2, w, env)

\* The session's index, fingerprint and file names
IndexState(d) ==
    [k \in DOMAIN d \cap {"vector_store", "files_hash", "indexed_files"} |-> d[k]]

\* History of a script run: the file set of the run and of the run before,
\* the embedding calls and index constructions, the index state before
RunRecord(event, w, r) ==
    [event |-> event, files |-> w.files, files_before |-> ui.files,
     embed_calls |-> r.embed_calls, built |-> r.built,
     index_before |-> IndexState(ss), kb_before |-> kb]

\* History of the knowledge base: the file set that was indexed last, and
\* whether that index has been discarded since
KbAfter(r, w, discards) ==
    LET built == IF r.built THEN [indexed |-> w.files, discarded |-> FALSE] ELSE kb
    IN  IF discards \/ (Has(ss, "vector_store") /\ ~Has(r.ss, "vector_store"))
        THEN [built EXCEPT !.discarded = TRUE]
        ELSE built

\* A widget of the sidebar or the uploader gets another value
ChangeInput(field, value, env) ==
    /\ TurnIdle /\ ~ui.rerun
    /\ ui[field] /= value
    /\ LET w == [ui EXCEPT ![field] = value]
           r == run_script(ss, w, env)
       IN  /\ ui' = w
           /\ ss' = r.ss
           /\ lastRun' = RunRecord("input", w, r)
           /\ kb' = KbAfter(r, w, FALSE)
    /\ turn' = NoTurn
    /\ lastTool' = NoCall
    /\ UNCHANGED <<dbVars, clockVars, loginVars, storeVars, ret, concVars, docVars,
                   completed, turns>>

\* A run with no event: after st.rerun(), or any other interaction.  A
\* pending prompt is answered (app.py 946-974): the turn begins.
Rerun(env) ==
    /\ TurnIdle
    /\ LET r == run_script(ss, ui, env)
           prompt == Get(r.ss, "pending_prompt", "")
           d1 == get_agentic_handler(r.ss, ui, env.llm_ok)
           current_handler == Get(d1, "agentic_llm", NoHandler)
           d2 == Put(Put(d1, "agent_generated_plan", FALSE),
                     "agent_generated_report", FALSE)
           begun == BeginTurn("app", current_handler, prompt, d2, env.llm_ok,
                              env.build_ok)
       IN  /\ lastRun' = RunRecord("rerun", ui, r)
           /\ kb' = KbAfter(r, ui, FALSE)
           /\ IF ~Truthy(prompt)
              THEN ss' = r.ss /\ turn' = NoTurn
              ELSE IF current_handler = NoHandler
              THEN ss' = Pop(d1, "pending_prompt") /\ turn' = NoTurn
              ELSE ss' = Put(d2, "agentic_llm", begun.h) /\ turn' = begun.turn
    /\ ui' = [ui EXCEPT !.rerun = FALSE]
    /\ lastTool' = NoCall
    /\ UNCHANGED <<dbVars, clockVars, loginVars, storeVars, ret, concVars, docVars,
                   completed, turns>>

\* A prompt is typed into the chat input (app.py 936-943)
SubmitPrompt(prompt, env) ==
    /\ TurnIdle /\ ~ui.rerun
    /\ turns < MaxTurns
    /\ turns' = turns + 1
    /\ LET r == run_script(ss, ui, env)
       IN  /\ lastRun' = RunRecord("prompt", ui, r)
           /\ kb' = KbAfter(r, ui, FALSE)
           /\ IF ~Truthy(ui.api_key)
              THEN ss' = r.ss /\ UNCHANGED ui
              ELSE /\ ss' = Put(Put(r.ss, "chat_messages",
                                    Append(r.ss["chat_messages"],
                                           [role |-> "user", content |-> prompt])),
                                "pending_prompt", prompt)
                   /\ ui' = [ui EXCEPT !.rerun = TRUE]
    /\ turn' = NoTurn
    /\ lastTool' = NoCall
    /\ UNCHANGED <<dbVars, clockVars, loginVars, storeVars, ret, concVars, docVars,
                   completed>>

\* Clear Chat History (app.py 981-986)
ClearChat(env) ==
    /\ TurnIdle /\ ~ui.rerun
    /\ LET r == run_script(ss, ui, env)
           d1 == get_agentic_handler(Put(r.ss, "chat_messages", <<>>), ui, env.llm_ok)
           current_handler == Get(d1, "agentic_llm", NoHandler)
       IN  /\ lastRun' = RunRecord("clear_chat", ui, r)
           /\ kb' = KbAfter(r, ui, FALSE)
           /\ ss' = IF current_handler /= NoHandler
                    THEN Put(d1, "agentic_llm", clear_memory(current_handler))
                    ELSE d1
    /\ completed' = <<>>
    /\ ui' = [ui EXCEPT !.rerun = TRUE]
    /\ turn' = NoTurn
    /\ lastTool' = NoCall
    /\ UNCHANGED <<dbVars, clockVars, loginVars, storeVars, ret, concVars, docVars,
                   turns>>

\* Reset Knowledge Base (app.py 988-995)
ResetKnowledgeBase(env) ==
    /\ TurnIdle /\ ~ui.rerun
    /\ LET r == run_script(ss, ui, env)
           popped == Pop(Pop(Pop(r.ss, "vector_store"), "files_hash"), "indexed_files")
           d1 == get_agentic_handler(popped, ui, env.llm_ok)
           current_handler == Get(d1, "agentic_llm", NoHandler)
       IN  /\ lastRun' = RunRecord("reset_kb", ui, r)
           /\ kb' = KbAfter(r, ui, TRUE)
           /\ ss' = IF current_handler /= NoHandler
                    THEN Put(d1, "agentic_llm",
                             set_vector_store(current_handler, NoStore, env.build_ok))
                    ELSE d1
    /\ ui' = [ui EXCEPT !.rerun = TRUE]
    /\ turn' = NoTurn
    /\ lastTool' = NoCall
    /\ UNCHANGED <<dbVars, clockVars, loginVars, storeVars, ret, concVars, docVars,
                   completed, turns>>

----------------------------------------------------------------------------
(* SpecTools: the four tools called directly, with every combination of    *)
(* captured values and of collaborator outcomes                            *)

Stores1 == {NoStore, [docs |-> <<Doc("Milestone 1", "prd.txt", 0, 1),
                                  Doc(NoDocumentsMessage, "notes.txt", 0, 1)>>]}
LLMs == {NoLLM, ChatOpenAI("gpt-4o-mini", "sk-1")}
TrelloPairs == {<<"", "">>, <<"tr-1", "">>, <<"tr-1", "tr-1">>}
ToolQueries == {"milestones", NoDocumentsMessage}

Https ==
    { Http(FALSE, TRUE, <<>>), Http(TRUE, FALSE, <<>>),
      Http(TRUE, TRUE, <<[name |-> "To Do",
                          cards |-> <<Card("Task A", "", "", ""),
                                      Card("Task B", "notes", "2025-01-01", "T10:00:00.000Z")>>],
                         [name |-> "Done", cards |-> <<>>]>>),
      Http(TRUE, TRUE, <<[name |-> "error", cards |-> <<Card("Task C", "", "", "")>>]>>) }
LLMOutcomes ==
    { LLMOutcome(FALSE, Content(FALSE, "")), LLMOutcome(TRUE, Content(FALSE, "")),
      LLMOutcome(TRUE, Content(TRUE, "# Plan")) }
Renders == {{}, {"pdf"}}
DefaultHttp == Http(TRUE, TRUE, <<>>)
DefaultLLM == LLMOutcome(TRUE, Content(FALSE, ""))

\* The collaborator outcomes that matter to a tool
EnvsFor(tool) ==
    IF tool = "search_project_documents"
    THEN {ToolEnv(s, DefaultHttp, DefaultLLM, {}) : s \in SearchOutcomes}
    ELSE IF tool = "fetch_trello_board"
    THEN {ToolEnv("nearest", h, DefaultLLM, {}) : h \in Https}
    ELSE IF tool = "generate_project_plan"
    THEN {ToolEnv(s, DefaultHttp, l, r) : s \in SearchOutcomes, l \in LLMOutcomes,
                                          r \in Renders}
    ELSE {ToolEnv("nearest", h, l, r) : h \in Https, l \in LLMOutcomes, r \in Renders}

CallTool(tools, call, env) ==
    /\ LET r == run_tool(tools, call, ss, env)
       IN  /\ ss' = r.ss
           /\ lastTool' = [tool |-> call.tool, arg |-> call.arg, result |-> r.result,
                           vector_store |-> tools.vector_store, env |-> env,
                           session_index |-> Has(ss, "vector_store"),
                           called |-> r.called]
    /\ UNCHANGED <<dbVars, clockVars, loginVars, storeVars, ret, concVars, docVars,
                   ui, turn, lastRun, kb, completed, turns>>

\* The values create_agent_tools captured, those the tool reads varied
Closure(vs, llm, tr, cb) ==
    [vector_store |-> vs, llm |-> llm, trello_api_key |-> tr[1],
     trello_token |-> tr[2], session_state_callback |-> cb]
ClosuresFor(tool) ==
    IF tool = "search_project_documents"
    THEN {Closure(vs, NoLLM, <<"", "">>, FALSE) : vs \in Stores1}
    ELSE IF tool = "fetch_trello_board"
    THEN {Closure(NoStore, NoLLM, tr, FALSE) : tr \in TrelloPairs}
    ELSE IF tool = "generate_project_plan"
    THEN {Closure(vs, llm, <<"", "">>, cb) : vs \in Stores1, llm \in LLMs, cb \in BOOLEAN}
    ELSE {Closure(NoStore, llm, tr, cb) : tr \in TrelloPairs, llm \in LLMs, cb \in BOOLEAN}
ArgsFor(tool) ==
    IF tool = "search_project_documents" THEN ToolQueries
    ELSE IF tool = "generate_project_plan" THEN {"", "Focus on risks"}
    ELSE {"board1"}

NextTools ==
    \E t \in ToolNames :
        \E tools \in ClosuresFor(t), arg \in ArgsFor(t), env \in EnvsFor(t) :
            CallTool(tools, ToolCall(t, arg), env)

SpecTools == Init /\ [][NextTools]_vars

SearchRan == lastTool /= NoCall /\ lastTool.tool = "search_project_documents"

\* C13: a search_project_documents call returns (it never raises); what it
\* returns is the "No documents have been uploaded yet" text exactly when the
\* tool has no vector index, and is the "No relevant information found" text
\* for the query, a different text, when it has an index and the search
\* finds no passage.
C13_SearchMessages ==
    SearchRan =>
        /\ lastTool.result.kind = "return"
        /\ (lastTool.result.value = NoDocumentsMessage) <=> (lastTool.vector_store = NoStore)
        /\ (lastTool.vector_store /= NoStore /\ lastTool.env.search = "empty") =>
              /\ lastTool.result.value = NoRelevantMessage(lastTool.arg)
              /\ lastTool.result.value /= NoDocumentsMessage

\* C13 witness: the tool has an index, the query is the "no documents" text
\* itself, and the search found no passage
C13_Witness ==
    /\ SearchRan
    /\ lastTool.vector_store /= NoStore
    /\ lastTool.arg = NoDocumentsMessage
    /\ lastTool.env.search = "empty"
    /\ lastTool.result = Returns(NoRelevantMessage(NoDocumentsMessage))

----------------------------------------------------------------------------
(* SpecHandler: an AgenticLLMHandler used directly: constructed with any   *)
(* key, given a vector store, asked to chat, its memory cleared            *)

NewHandler(api_key, tr, llm_ok) ==
    /\ TurnIdle
    /\ ss' = Put(ss, "agentic_llm",
                 AgenticLLMHandler(api_key, "gpt-4o-mini", tr[1], tr[2], TRUE, llm_ok))
    /\ completed' = <<>>
    /\ turn' = NoTurn
    /\ lastTool' = NoCall
    /\ UNCHANGED <<dbVars, clockVars, loginVars, storeVars, ret, concVars, docVars,
                   ui, lastRun, kb, turns>>

CallSetVectorStore(vector_store, build_ok) ==
    /\ TurnIdle /\ Handler /= NoHandler
    /\ Handler.vector_store /= vector_store
    /\ ss' = Put(ss, "agentic_llm", set_vector_store(Handler, vector_store, build_ok))
    /\ turn' = NoTurn
    /\ lastTool' = NoCall
    /\ UNCHANGED <<dbVars, clockVars, loginVars, storeVars, ret, concVars, docVars,
                   ui, lastRun, kb, completed, turns>>

CallClearMemory ==
    /\ TurnIdle /\ Handler /= NoHandler
    /\ get_chat_history(Handler) /= <<>>
    /\ ss' = Put(ss, "agentic_llm", clear_memory(Handler))
    /\ completed' = <<>>
    /\ turn' = NoTurn
    /\ lastTool' = NoCall
    /\ UNCHANGED <<dbVars, clockVars, loginVars, storeVars, ret, concVars, docVars,
                   ui, lastRun, kb, turns>>

CallChat(user_message, llm_ok, build_ok) ==
    /\ TurnIdle /\ Handler /= NoHandler
    /\ turns < MaxTurns
    /\ turns' = turns + 1
    /\ LET begun == BeginTurn("direct", Handler, user_message, ss, llm_ok, build_ok)
       IN  /\ ss' = Put(ss, "agentic_llm", begun.h)
           /\ turn' = begun.turn
    /\ lastTool' = NoCall
    /\ UNCHANGED <<dbVars, clockVars, loginVars, storeVars, ret, concVars, docVars,
                   ui, lastRun, kb, completed>>

\* The collaborator outcomes for the tool call that is next
ExecEnvs == IF turn.phase = "executing" THEN EnvsFor(Head(turn.queue).tool) ELSE {}

\* The model asks for tools in at most MaxPlanSteps planning steps of a
\* turn, one tool per step
BoundedPlanStep(outcome) ==
    /\ turn.phase = "planning"
    /\ outcome.kind = "act" => turn.iterations < MaxPlanSteps
    /\ PlanStep(outcome)

NextHandler ==
    \/ \E k \in ApiKeys, tr \in TrelloPairs, ok \in BOOLEAN : NewHandler(k, tr, ok)
    \/ \E vs \in Stores1, ok \in BOOLEAN : CallSetVectorStore(vs, ok)
    \/ CallClearMemory
    \/ \E p \in Prompts, llm_ok \in BOOLEAN, build_ok \in BOOLEAN :
          CallChat(p, llm_ok, build_ok)
    \/ \E o \in PlanOutcomes(1) : BoundedPlanStep(o)
    \/ \E env \in ExecEnvs : ExecTool(env)
    \/ ChatReturn

SpecHandler == Init /\ [][NextHandler]_vars

\* SpecLoop: one handler, and a model that may ask for up to MaxParallel
\* tools in every planning step
OneEnv == ToolEnv("nearest", DefaultHttp, DefaultLLM, {})
NextLoop ==
    \/ \E ok \in BOOLEAN : NewHandler("sk-1", <<"", "">>, ok)
    \/ \E p \in Prompts, llm_ok \in BOOLEAN, build_ok \in BOOLEAN :
          CallChat(p, llm_ok, build_ok)
    \/ \E o \in PlanOutcomes(MaxParallel) : PlanStep(o)
    \/ ExecTool(OneEnv)
    \/ ChatReturn

SpecLoop == Init /\ [][NextLoop]_vars

----------------------------------------------------------------------------
(* SpecAgent: the AI Assistant tab                                         *)

\* The inputs and collaborator outcomes of the chat sessions: one key, one
\* model, one file, and for a tool call the outcomes in which every collaborator works
\* or exactly one fails
AgentKeys == {"", "sk-1"}
AgentFileSets == {<<>>, <<Upload("prd.txt", 11, "Milestone 1")>>}
AgentRunEnvs == {RunEnv(TRUE, TRUE, TRUE)}
BoardHttp == CHOOSE h \in Https : h.resolve_ok /\ h.lists_ok /\ Len(h.lists_data) = 2
PlanLLM == LLMOutcome(TRUE, Content(TRUE, "# Plan"))
AgentEnvs ==
    IF turn.phase /= "executing" THEN {}
    ELSE { ToolEnv("nearest", BoardHttp, PlanLLM, {}),
           ToolEnv("raise", BoardHttp, PlanLLM, {}),
           ToolEnv("nearest", Http(TRUE, FALSE, <<>>), PlanLLM, {}),
           ToolEnv("nearest", BoardHttp, LLMOutcome(FALSE, Content(FALSE, "")), {}),
           ToolEnv("nearest", BoardHttp, PlanLLM, {"pdf"}) }

NextAgent ==
    \/ \E v \in AgentKeys, env \in AgentRunEnvs : ChangeInput("api_key", v, env)
    \/ \E f \in {"trello_key", "trello_token"}, v \in TrelloValues, env \in AgentRunEnvs :
          ChangeInput(f, v, env)
    \/ \E v \in AgentFileSets, env \in AgentRunEnvs : ChangeInput("files", v, env)
    \/ \E env \in AgentRunEnvs : Rerun(env)
    \/ \E p \in Prompts, env \in AgentRunEnvs : SubmitPrompt(p, env)
    \/ \E env \in AgentRunEnvs : ClearChat(env)
    \/ \E env \in AgentRunEnvs : ResetKnowledgeBase(env)
    \/ \E o \in PlanOutcomes(1) : BoundedPlanStep(o)
    \/ \E env \in AgentEnvs : ExecTool(env)
    \/ ChatReturn

SpecAgent == Init /\ [][NextAgent]_vars

----------------------------------------------------------------------------
(* Claims about the handler and its tools, under SpecHandler                *)

ChatOver == turn.phase \in {"finished", "returned"}

\* C17: a chat call on a handler that has no API key, or whose LLM or agent
\* executor cannot be built, ends with one of the three configuration error
\* texts without a planning step and without a tool call, and after it has
\* returned the chat history of the memory and the plan / report part of the
\* session state are what they were when it was called.
C17_ConfigurationError ==
    (ChatOver /\ (turn.start.no_key \/ turn.start.llm_fails \/ turn.start.build_fails)) =>
        /\ turn.early
        /\ turn.response \in ConfigurationErrors
        /\ turn.tool_calls = 0 /\ turn.iterations = 0
        /\ get_chat_history(Handler) = turn.start.history
        /\ Artifacts(ss) = turn.start.artifacts

\* C17 witness: a handler with a key and an earlier turn in its memory lost
\* its executor, the executor cannot be rebuilt, and chat has returned
C17_Witness ==
    /\ turn.phase = "returned"
    /\ ~turn.start.no_key /\ ~turn.start.llm_fails /\ turn.start.build_fails
    /\ turn.response = AgentNotInitialized
    /\ turn.start.history /= <<>>
    /\ get_chat_history(Handler) = turn.start.history

\* C18: every call of one of the four tools returns a text, whatever its
\* input and whichever of its collaborators fails, and every chat call ends
\* with a text as its response.
C18_ToolsReturnText ==
    /\ lastTool /= NoCall =>
          /\ lastTool.tool \in ToolNames
          /\ lastTool.result.kind = "return"
          /\ lastTool.result.value \in STRING
    /\ ChatOver => turn.response \in STRING

\* C18 witness: generate_project_plan ran in a turn, the LLM answered, and
\* the callback that stores the plan raised while rendering the PDF
C18_Witness ==
    /\ lastTool /= NoCall
    /\ lastTool.tool = "generate_project_plan"
    /\ lastTool.vector_store /= NoStore
    /\ lastTool.env.search = "nearest" /\ lastTool.env.llm.ok
    /\ lastTool.env.render = {"pdf"}
    /\ lastTool.result = Returns("Error generating project plan: PDF generation failed")

\* C16: in a chat call the tools are invoked at most max_iterations times in
\* all, and a call that ran into the limit ends with a text as its response.
C16_AtMostTenToolCalls ==
    turn.phase /= "idle" =>
        /\ turn.tool_calls <= max_iterations
        /\ (ChatOver /\ turn.iterations >= max_iterations) => turn.response \in STRING

----------------------------------------------------------------------------
(* SpecIndex: the script runs of the AI Assistant tab that no prompt starts *)

NextIndex ==
    \/ \E v \in ApiKeys, env \in RunEnvs : ChangeInput("api_key", v, env)
    \/ \E v \in Models, env \in RunEnvs : ChangeInput("model", v, env)
    \/ \E f \in {"trello_key", "trello_token"}, v \in TrelloValues, env \in RunEnvs :
          ChangeInput(f, v, env)
    \/ \E v \in FileSets, env \in RunEnvs : ChangeInput("files", v, env)
    \/ \E env \in RunEnvs : Rerun(env)
    \/ \E env \in RunEnvs : ResetKnowledgeBase(env)

SpecIndex == Init /\ [][NextIndex]_vars

\* The last step was a script run whose files have the names and sizes, in
\* order, of the files of the run before and of the files indexed last
RunUnchanged ==
    /\ lastRun /= NoCall
    /\ lastRun.files /= <<>>
    /\ NameSizes(lastRun.files) = NameSizes(lastRun.files_before)
    /\ NameSizes(lastRun.files) = NameSizes(lastRun.kb_before.indexed)

\* The run made no embedding call, built no index and left the session's
\* vector_store, files_hash and indexed_files as they were
RunKeptIndex ==
    /\ lastRun.embed_calls = 0
    /\ ~lastRun.built
    /\ IndexState(ss) = lastRun.index_before

\* C14 as stated: every script run with the file set unchanged since it was
\* indexed makes no embedding call, builds no index and leaves the session's
\* index, files_hash and indexed_files unchanged.
C14_Original == RunUnchanged => RunKeptIndex

\* C14: a script run with the file set unchanged since it was indexed, in
\* which Reset Knowledge Base is not pressed and before which the index has
\* not been discarded since it was built, makes no embedding call, builds no
\* index and leaves the session's index, files_hash and indexed_files
\* unchanged.
C14_UnchangedFilesNoReindex ==
    (RunUnchanged /\ lastRun.event /= "reset_kb" /\ ~lastRun.kb_before.discarded)
        => RunKeptIndex

\* C14 witness: the API key was changed while the indexed file stayed
\* uploaded, and the index is still in the session
C14_Witness ==
    /\ RunUnchanged /\ ~lastRun.kb_before.discarded
    /\ lastRun.event = "input"
    /\ ui.api_key = "sk-2"
    /\ Has(ss, "vector_store") /\ Has(ss, "files_hash")

----------------------------------------------------------------------------
(* Claims about the AI Assistant tab, under SpecAgent                       *)

\* C15: while the session's index is discarded (the files were removed or
\* Reset Knowledge Base was pressed, and no index has been built since),
\* a search_project_documents call of the agent returns the "No documents
\* have been uploaded yet" text and a generate_project_plan call the "No
\* documents uploaded" text.
C15_DiscardedForAgent ==
    (lastTool /= NoCall /\ kb.discarded) =>
        /\ lastTool.tool = "search_project_documents"
              => lastTool.result = Returns(NoDocumentsMessage)
        /\ lastTool.tool = "generate_project_plan"
              => lastTool.result = Returns(NoDocumentsForPlan)

\* The message the chat tab appended last
LastMessage == ss["chat_messages"][Len(ss["chat_messages"])]

\* C19: the message appended for a turn has has_plan exactly if a
\* generate_project_plan call of that turn stored a non-empty plan, and
\* has_report exactly if a generate_status_report call of that turn stored
\* a non-empty report.
C19_FlagsMatchTurn ==
    (turn.phase = "returned" /\ turn.caller = "app") =>
        /\ Has(LastMessage, "has_plan") <=> turn.stored_plan
        /\ Has(LastMessage, "has_report") <=> turn.stored_report

RECURSIVE HistoryOf(_)
\* The chat history that holds the given turns in order
HistoryOf(done) ==
    IF done = <<>> THEN <<>>
    ELSE <<[role |-> "user", content |-> Head(done).input],
           [role |-> "assistant", content |-> Head(done).output]>>
         \o HistoryOf(Tail(done))

\* C20: the memory that a turn of the chat tab starts its planning with
\* holds the turns the executor finished since the last Clear Chat History,
\* in order.
C20_MemoryHoldsEarlierTurns ==
    (turn.phase = "planning" /\ turn.caller = "app") =>
        turn.start.history = HistoryOf(completed)

----------------------------------------------------------------------------
(* SpecRender: OutputGenerator.generate_all_formats called directly, each  *)
(* subset of the four save_* calls failing                                 *)

\* The save_* calls that generate_all_formats makes before it returns or
\* raises: the dictionary display evaluates them in order and stops at the
\* first that raises
Attempted(render) ==
    LET failing == {i \in 1..Len(Formats) : Formats[i] \in render}
        last == IF failing = {} THEN Len(Formats)
                ELSE CHOOSE i \in failing : \A j \in failing : i <= j
    IN  {Formats[i] : i \in 1..last}

RenderPrefixes == {"project_plan", "status_report"}
RenderContents ==
    {Content(FALSE, "# Plan"), Content(FALSE, "# Status"), Content(FALSE, "text"),
     Content(FALSE, "")}
AllFormats == {Formats[i] : i \in 1..Len(Formats)}

CallGenerateAllFormats(content, prefix, render) ==
    /\ lastTool' = [tool |-> "generate_all_formats", arg |-> prefix,
                    result |-> generate_all_formats(content, prefix, render),
                    attempted |-> Attempted(render), render |-> render,
                    content |-> content]
    /\ UNCHANGED <<dbVars, clockVars, loginVars, storeVars, ret, concVars, docVars,
                   ui, ss, turn, lastRun, kb, completed, turns>>

NextRender ==
    \E content \in RenderContents, prefix \in RenderPrefixes, render \in SUBSET AllFormats :
        CallGenerateAllFormats(content, prefix, render)

SpecRender == Init /\ [][NextRender]_vars

\* C21: a generate_all_formats call attempts all four renders and returns
\* the paths of exactly those that did not fail.
C21_IndependentRenders ==
    (lastTool /= NoCall /\ lastTool.tool = "generate_all_formats") =>
        /\ lastTool.attempted = AllFormats
        /\ lastTool.result.kind = "return"
        /\ DOMAIN lastTool.result.value = AllFormats \ lastTool.render

----------------------------------------------------------------------------
(* SpecProcess: DocumentProcessor.process_files (src/src/document_processor *)
(* .py 42-111) on batches of files.  A file carries what its reader does:   *)
(* _read_pdf, _read_docx, _read_txt and _read_excel return (content,        *)
(* metadata), with an "Error ..." content when they caught a failure, or    *)
(* raise.                                                                   *)

MaxBatch == 2

\* An uploaded file: its name as stem and extension, and its reader's outcome
Named(stem, ext, read) == [stem |-> stem, ext |-> ext, read |-> read]
file_name(f) == f.stem \o f.ext
\* os.path.splitext(file_name)[1].lower(), for the extensions of this model
lower_ext(ext) ==
    IF ext \in {".TXT", ".txt"} THEN ".txt"
    ELSE IF ext \in {".PDF", ".pdf"} THEN ".pdf"
    ELSE ext
Read(content, metadata) == Returns([content |-> content, metadata |-> metadata])

\* The try block's reads (63-73): content and metadata, or the exception
ReadFile(f) ==
    IF lower_ext(f.ext) \in {".pdf", ".docx", ".txt", ".xlsx", ".xls"} THEN f.read
    ELSE Read("[Skipped unsupported file format: " \o file_name(f) \o "]",
              [error |-> "Unsupported format"])

\* content.startswith("[Skipped") or content.startswith("Error"): the
\* contents of this model that do
SkippedOrError(f, content) ==
    \/ content = "[Skipped unsupported file format: " \o file_name(f) \o "]"
    \/ content \in {"Error reading PDF: EOF marker not found", "Error budget for Q3"}

metadata_str(metadata) ==
    IF "pages" \in DOMAIN metadata THEN " (" \o ToString(metadata.pages) \o " pages)"
    ELSE IF "sheets" \in DOMAIN metadata
    THEN " (" \o ToString(Len(metadata.sheets)) \o " sheets)"
    ELSE IF "encoding" \in DOMAIN metadata THEN " (encoding: " \o metadata.encoding \o ")"
    ELSE ""

\* Mutant: a file whose reader raises gets no entry
ProcessOne_drop(acc, f) ==
    LET r == ReadFile(f)
    IN  IF r.kind = "raise" THEN acc
        ELSE [segments |-> acc.segments,
              file_details |-> Append(acc.file_details,
                  [name |-> file_name(f), status |-> "Empty or Unreadable",
                   metadata |-> r.value.metadata])]

\* One pass of the loop (56-106): acc holds the pieces appended to
\* combined_text and file_details
ProcessOne(acc, f) ==
    LET r == ReadFile(f)
    IN  IF r.kind = "raise"
        THEN [segments |-> Append(acc.segments,
                  "--- Error reading " \o file_name(f) \o " ---\n" \o r.msg),
              file_details |-> Append(acc.file_details,
                  [name |-> file_name(f), status |-> "Error: " \o r.msg,
                   metadata |-> [error |-> r.msg]])]
        ELSE IF r.value.content /= "" /\ ~SkippedOrError(f, r.value.content)
        THEN [segments |-> Append(acc.segments,
                  "--- Content from " \o file_name(f) \o metadata_str(r.value.metadata)
                  \o " ---\n" \o r.value.content),
              file_details |-> Append(acc.file_details,
                  [name |-> file_name(f), status |-> "Processed",
                   metadata |-> r.value.metadata])]
        ELSE [segments |-> acc.segments,
              file_details |-> Append(acc.file_details,
                  [name |-> file_name(f), status |-> "Empty or Unreadable",
                   metadata |-> r.value.metadata])]

RECURSIVE ProcessFrom(_, _)
ProcessFrom(acc, files) ==
    IF files = <<>> THEN acc ELSE ProcessFrom(ProcessOne(acc, Head(files)), Tail(files))

RECURSIVE JoinSegments(_)
\* combined_text.strip(): every piece is appended after "\n\n", so the
\* stripped text is the pieces with "\n\n" between them (the pieces of this
\* model end in no white space)
JoinSegments(segments) ==
    IF segments = <<>> THEN ""
    ELSE IF Len(segments) = 1 THEN Head(segments)
    ELSE Head(segments) \o "\n\n" \o JoinSegments(Tail(segments))

process_files(uploaded_files) ==
    LET done == ProcessFrom([segments |-> <<>>, file_details |-> <<>>], uploaded_files)
    IN  [combined_text |-> JoinSegments(done.segments), file_details |-> done.file_details]

ReaderErrors == {"Excel file format cannot be determined", "'NoneType' object is not iterable"}
BatchFiles ==
    { Named("prd", ".pdf", Read("Milestone 1", [pages |-> 2])),
      Named("PLAN", ".TXT", Read("Phase 2", [encoding |-> "utf-8", confidence |-> "99.00%"])),
      Named("empty", ".txt", Read("", [encoding |-> "ascii", confidence |-> "100.00%"])),
      Named("slo", ".txt", Read("Error budget for Q3",
                                 [encoding |-> "ascii", confidence |-> "100.00%"])),
      Named("scan", ".pdf", Read("Error reading PDF: EOF marker not found",
                                  [error |-> "EOF marker not found"])),
      Named("data", ".xlsx", Read("Sheet: Tasks", [sheets |-> <<"Tasks", "Risks">>])),
      Named("spec", ".docx", Read("Requirements", [paragraphs |-> 1])),
      Named("logo", ".png", Read("", [none |-> TRUE])) }
      \cup {Named("old", ".xls", Raises(m)) : m \in ReaderErrors}

RECURSIVE Batches(_)
\* The batches of at most n files
Batches(n) ==
    IF n = 0 THEN {<<>>}
    ELSE Batches(n - 1) \cup {Append(b, f) : b \in Batches(n - 1), f \in BatchFiles}

CallProcessFiles(uploaded_files) ==
    /\ lastTool' = [tool |-> "process_files", files |-> uploaded_files,
                    result |-> process_files(uploaded_files)]
    /\ UNCHANGED <<dbVars, clockVars, loginVars, storeVars, ret, concVars, docVars,
                   ui, ss, turn, lastRun, kb, completed, turns>>

NextProcess == \E b \in Batches(MaxBatch) : CallProcessFiles(b)

SpecProcess == Init /\ [][NextProcess]_vars

ProcessRan == lastTool /= NoCall /\ lastTool.tool = "process_files"
Statuses ==
    {"Processed", "Empty or Unreadable"} \cup {"Error: " \o m : m \in ReaderErrors}
\* What process_files returns for the file alone
Alone(f) == process_files(<<f>>)
RECURSIVE TextsAlone(_)
\* The texts of the files processed alone, those that have one
TextsAlone(files) ==
    IF files = <<>> THEN <<>>
    ELSE (IF Alone(Head(files)).combined_text = "" THEN <<>>
          ELSE <<Alone(Head(files)).combined_text>>) \o TextsAlone(Tail(files))

\* C22: process_files returns one file_details entry per input file, in
\* input order, with status Processed, Empty or Unreadable, or Error: and
\* the detail; the entry of each file, and its part of combined_text, are
\* what process_files returns for that file alone.
C22_PerFileFailures ==
    ProcessRan =>
        LET files == lastTool.files
            r == lastTool.result
        IN  /\ Len(r.file_details) = Len(files)
            /\ \A i \in 1..Len(files) :
                  /\ r.file_details[i].name = file_name(files[i])
                  /\ r.file_details[i].status \in Statuses
                  /\ r.file_details[i] = Alone(files[i]).file_details[1]
            /\ r.combined_text = JoinSegments(TextsAlone(files))

\* C22 witness: the reader of the first file of a batch raised and the
\* second file was processed
C22_Witness ==
    /\ ProcessRan
    /\ Len(lastTool.files) = 2
    /\ lastTool.files[1].read.kind = "raise"
    /\ lastTool.result.file_details[1].status = "Error: Excel file format cannot be determined"
    /\ lastTool.result.file_details[2].status = "Processed"

----------------------------------------------------------------------------
(* C23: who writes company_secrets (SpecCred)                              *)

IsMember(s) == current_user[s] /= NoUser /\ current_user[s].role = "member"
IsAdmin(s) == current_user[s] /= NoUser /\ current_user[s].role = "admin"

\* C23: company-scoped secrets are written only on behalf of an admin: a
\* press of "Save as Company Credentials" in a session whose current user has
\* role member leaves company_secrets as it was, and every company_secrets
\* row that a step creates or changes belongs to the company of a session
\* whose current user has role admin.
C23_OnlyAdminWritesCompanySecrets ==
    [][ /\ \A s \in Sessions : IsMember(s) =>
              \A a \in Inputs, k \in Inputs, t \in Inputs :
                  SaveCompanyCredentials(s, a, k, t) =>
                      company_secrets' = company_secrets
        /\ \A r \in company_secrets' \ company_secrets :
              \E s \in Sessions :
                  IsAdmin(s) /\ current_user[s].company_id = r.owner
      ]_vars

\* C23 witness: a member session has saved its own credentials, in a company
\* whose admin has saved company credentials
C23_Witness ==
    \E s \in Sessions :
        /\ IsMember(s)
        /\ \E r \in user_secrets : r.owner = current_user[s].id
        /\ \E r \in company_secrets : r.owner = current_user[s].company_id

----------------------------------------------------------------------------
(* C24, C25, C27: the Trello tools and the two generators (SpecTools, in   *)
(* which every step is one tool call and lastTool' describes it)           *)

\* The keys of the session state that hold a plan, or a report
PlanKeys == {"current_plan", "plan_files", "agent_generated_plan"}
ReportKeys == {"current_report", "report_files", "agent_generated_report"}
Restrict(d, keys) == [k \in keys \cap DOMAIN d |-> d[k]]

\* The call asked the board client for the board
AskedTrello(lt) ==
    /\ lt /= NoCall
    /\ lt.tool \in {"fetch_trello_board", "generate_status_report"}
    /\ "trello" \in lt.called

\* C24: when a request of the board client fails the client returns the
\* {error: message} sentinel; when the client returns the sentinel,
\* fetch_trello_board and generate_status_report return the text "Error
\* fetching Trello data: " followed by its message, and generate_status_report
\* has called neither the LLM nor the callback and leaves current_report,
\* report_files and agent_generated_report as they were before the call.
C24_SentinelStopsReport ==
    [][ LET lt == lastTool'
        IN  AskedTrello(lt) =>
              LET board_data == fetch_board_data(lt.arg, lt.env.http)
              IN  /\ (~lt.env.http.resolve_ok \/ ~lt.env.http.lists_ok) =>
                        /\ DictHas(board_data, "error")
                        /\ IsMessage(DictGet(board_data, "error"))
                  /\ DictHas(board_data, "error") =>
                        /\ lt.result = Returns("Error fetching Trello data: "
                                               \o StrOf(DictGet(board_data, "error")))
                        /\ lt.tool = "generate_status_report" =>
                              /\ lt.called = {"trello"}
                              /\ Restrict(ss', ReportKeys) = Restrict(ss, ReportKeys)
      ]_vars

\* C24 witness: generate_status_report ran when a report was already stored,
\* the lists request failed, and the LLM would have answered
C24_Witness ==
    /\ AskedTrello(lastTool)
    /\ lastTool.tool = "generate_status_report"
    /\ lastTool.env.http.resolve_ok /\ ~lastTool.env.http.lists_ok
    /\ lastTool.env.llm.ok
    /\ lastTool.result = Returns("Error fetching Trello data: 500 Server Error")
    /\ Has(ss, "current_report") /\ Has(ss, "agent_generated_report")

\* Both requests of the board client succeeded
FetchSucceeded(lt) == AskedTrello(lt) /\ lt.env.http.resolve_ok /\ lt.env.http.lists_ok

\* C25 (fails for a board with a list named "error"): for every board fetched
\* successfully, whatever the names of its lists, fetch_trello_board returns
\* the "Trello Board Data" text with the card summaries of each list, and
\* generate_status_report goes on to call the LLM.
C25_SuccessIsNotFailure ==
    FetchSucceeded(lastTool) =>
        /\ lastTool.tool = "fetch_trello_board" =>
              lastTool.result =
                  Returns("**Trello Board Data:**\n\n"
                          \o FormatBoardText(FormatBoard(lastTool.env.http.lists_data, <<>>)))
        /\ lastTool.tool = "generate_status_report" => "llm" \in lastTool.called

\* The text a generator returns when it has produced and stored its content
SuccessText(lt) ==
    IF lt.tool = "generate_project_plan"
    THEN "**Project Plan Generated Successfully!**\n\n" \o Raw(lt.env.llm.content)
         \o DownloadFooter("plan")
    ELSE "**Status Report Generated Successfully!**\n\n" \o Raw(lt.env.llm.content)
         \o DownloadFooter("report")
GeneratorRan(lt) ==
    lt /= NoCall /\ lt.tool \in {"generate_project_plan", "generate_status_report"}
ArtifactKeys(lt) == IF lt.tool = "generate_project_plan" THEN PlanKeys ELSE ReportKeys

\* C27 (fails when the callback raises after it has stored the content): a
\* call of generate_project_plan or generate_status_report that returns an
\* error message leaves current_plan / current_report, plan_files /
\* report_files and the generated flag with the values they had before the
\* call.
C27_ErrorChangesNothing ==
    [][ LET lt == lastTool'
        IN  (GeneratorRan(lt) /\ lt.result /= Returns(SuccessText(lt))) =>
                Restrict(ss', ArtifactKeys(lt)) = Restrict(ss, ArtifactKeys(lt))
      ]_vars

----------------------------------------------------------------------------
(* C26: the index of the session and of the handler (SpecAgent)            *)

\* A turn of the chat tab has begun and no planning step has run yet
TurnStarts ==
    /\ turn.phase = "planning" /\ turn.caller = "app"
    /\ turn.iterations = 0 /\ turn.tool_calls = 0

\* C26 (fails after the handler was recreated for a changed key or Trello
\* value while the file set stayed the same): when a turn of the chat tab
\* starts and the session state holds a vector index, the handler that
\* serves the turn holds that index.
C26_HandlerHoldsSessionIndex ==
    (TurnStarts /\ Has(ss, "vector_store")) =>
        /\ Handler /= NoHandler
        /\ Handler.vector_store = ss["vector_store"]
        /\ Handler.agent_executor.tools.vector_store = ss["vector_store"]

----------------------------------------------------------------------------
(* SpecDirect: the Project Planning and Status Reports tabs of src/app.py  *)
(* (575-614 and 644-689) with the LLMHandler of src/src/llm_handler.py     *)
(* 13-72, for a session that is not logged in.  The files of the plan      *)
(* tab's uploader and the text of the board input are given with the press *)
(* of the button.                                                          *)

NoClient == [none |-> TRUE]
ClientMissing == "Error: OpenAI API Key is missing or invalid."
ClientNotInitialized == "Error: OpenAI Client not initialized. Check API Key."

\* LLMHandler.__init__ with OPENAI_API_KEY unset: the OpenAI constructor
\* gives the client or raises, which leaves client None
LLMHandler(api_key, model, client_ok) ==
    [api_key |-> api_key, model |-> model,
     client |-> IF Truthy(api_key) /\ client_ok THEN [api_key |-> api_key] ELSE NoClient]

\* _ensure_client: the constructor is called again, outside any try
_ensure_client(h, client_ok) ==
    IF h.client = NoClient /\ Truthy(h.api_key)
    THEN IF client_ok THEN Returns([h EXCEPT !.client = [api_key |-> h.api_key]])
         ELSE Raises("The api_key client option must be set")
    ELSE Returns(h)

\* _call_llm: the content of the answer, or the text of the exception
_call_llm(h, outcome) ==
    IF h.client = NoClient THEN Content(FALSE, ClientNotInitialized)
    ELSE LET response == invoke(h, outcome)
         IN  IF response.kind = "raise"
             THEN Content(FALSE, "Error generating response: " \o response.msg)
             ELSE response.value

\* What the collaborators of one press of a Generate button do: the OpenAI
\* constructor ("ok", "retry": it raises once, "fail"), the Trello
\* requests, the completion call, the save_* calls
DirectEnv(client, http, llm_outcome, render) ==
    [client |-> client, http |-> http, llm |-> llm_outcome, render |-> render]

\* LLMHandler.generate_project_plan
LLMHandler_generate_project_plan(h, documents_text, env) ==
    LET ensured == _ensure_client(h, env.client /= "fail")
    IN  IF ensured.kind = "raise" THEN ensured
        ELSE IF ensured.value.client = NoClient THEN Returns(Content(FALSE, ClientMissing))
        ELSE Returns(_call_llm(ensured.value, env.llm))

\* LLMHandler.generate_status_report
LLMHandler_generate_status_report(h, trello_data, env) ==
    LET ensured == _ensure_client(h, env.client /= "fail")
    IN  IF ensured.kind = "raise" THEN ensured
        ELSE IF ensured.value.client = NoClient THEN Returns(Content(FALSE, ClientMissing))
        ELSE Returns(_call_llm(ensured.value, env.llm))

\* The text LLMHandler returns for this press when its LLM call fails
LLMErrorTexts ==
    {Content(FALSE, ClientMissing), Content(FALSE, ClientNotInitialized),
     Content(FALSE, "Error generating response: Connection error.")}

\* The body of "Generate Plan" (app.py 575-614): the session state it
\* leaves, whether the script ended in it (st.stop() or an exception that
\* left it), and what the LLMHandler returned
PlanTab(d, w, uploaded_files, env) ==
    IF ~Truthy(w.api_key) THEN [ss |-> d, stopped |-> FALSE, llm |-> NoCall]
    ELSE
    LET processed_data == process_files(uploaded_files)
        llm == LLMHandler(w.api_key, w.model, env.client = "ok")
        plan == LLMHandler_generate_project_plan(llm, processed_data.combined_text, env)
        clean_plan == clean_markdown_display(plan.value)
        stored == Put(d, "current_plan", clean_plan)
        files == generate_all_formats(clean_plan, "project_plan", env.render)
    IN  IF ~Truthy(processed_data.combined_text)
        THEN [ss |-> d, stopped |-> TRUE, llm |-> NoCall]
        ELSE IF plan.kind = "raise" THEN [ss |-> d, stopped |-> TRUE, llm |-> plan]
        ELSE IF files.kind = "raise" THEN [ss |-> stored, stopped |-> TRUE, llm |-> plan]
        ELSE [ss |-> Put(stored, "plan_files", files.value), stopped |-> FALSE,
              llm |-> plan]

\* The body of "Generate Report" (app.py 644-689)
ReportTab(d, w, board_input, env) ==
    IF ~Truthy(w.trello_key) \/ ~Truthy(w.trello_token) \/ ~Truthy(board_input)
    THEN [ss |-> d, stopped |-> FALSE, llm |-> NoCall]
    ELSE IF ~Truthy(w.api_key) THEN [ss |-> d, stopped |-> FALSE, llm |-> NoCall]
    ELSE
    LET cleared == Pop(Pop(d, "current_report"), "report_files")
        board_data == fetch_board_data(board_input, env.http)
        llm == LLMHandler(w.api_key, w.model, env.client = "ok")
        report == LLMHandler_generate_status_report(llm, board_data, env)
        clean_report == clean_markdown_display(report.value)
        stored == Put(cleared, "current_report", clean_report)
        files == generate_all_formats(clean_report, "status_report", env.render)
    IN  IF DictHas(board_data, "error")
        THEN [ss |-> cleared, stopped |-> TRUE, llm |-> NoCall]
        ELSE IF report.kind = "raise" THEN [ss |-> cleared, stopped |-> TRUE, llm |-> report]
        ELSE IF files.kind = "raise" THEN [ss |-> stored, stopped |-> TRUE, llm |-> report]
        ELSE [ss |-> Put(stored, "report_files", files.value), stopped |-> FALSE,
              llm |-> report]

\* The script run of a press: get_agentic_handler (453), the tab's body,
\* and unless the script ended there the AI tab (710-782)
DirectRun(tab, w, run) ==
    IF tab.stopped THEN [ss |-> tab.ss, embed_calls |-> 0, built |-> FALSE]
    ELSE auto_index(IF Has(tab.ss, "chat_messages") THEN tab.ss
                    ELSE Put(tab.ss, "chat_messages", <<>>), w, run)

GeneratePlan(uploaded_files, env, run) ==
    /\ TurnIdle /\ ~ui.rerun
    /\ uploaded_files /= <<>>
    /\ LET tab == PlanTab(get_agentic_handler(ss, ui, run.llm_ok), ui, uploaded_files, env)
           r == DirectRun(tab, ui, run)
       IN  /\ ss' = r.ss
           /\ lastRun' = RunRecord("generate_plan", ui, r)
           /\ kb' = KbAfter(r, ui, FALSE)
           /\ lastTool' = [tool |-> "plan_tab", arg |-> uploaded_files, env |-> env,
                           llm |-> tab.llm]
    /\ turn' = NoTurn
    /\ UNCHANGED <<dbVars, clockVars, loginVars, storeVars, ret, concVars, docVars,
                   ui, completed, turns>>

GenerateReport(board_input, env, run) ==
    /\ TurnIdle /\ ~ui.rerun
    /\ LET tab == ReportTab(get_agentic_handler(ss, ui, run.llm_ok), ui, board_input, env)
           r == DirectRun(tab, ui, run)
       IN  /\ ss' = r.ss
           /\ lastRun' = RunRecord("generate_report", ui, r)
           /\ kb' = KbAfter(r, ui, FALSE)
           /\ lastTool' = [tool |-> "report_tab", arg |-> board_input, env |-> env,
                           llm |-> tab.llm]
    /\ turn' = NoTurn
    /\ UNCHANGED <<dbVars, clockVars, loginVars, storeVars, ret, concVars, docVars,
                   ui, completed, turns>>

DirectFiles ==
    { <<Named("prd", ".pdf", Read("Milestone 1", [pages |-> 2]))>>,
      <<Named("empty", ".txt", Read("", [encoding |-> "ascii", confidence |-> "100.00%"]))>> }
DirectBoards == {"", "board1"}
\* Every collaborator works, or exactly one fails
DirectEnvs ==
    { DirectEnv("ok", BoardHttp, PlanLLM, {}),
      DirectEnv("retry", BoardHttp, PlanLLM, {}),
      DirectEnv("fail", BoardHttp, PlanLLM, {}),
      DirectEnv("ok", Http(TRUE, FALSE, <<>>), PlanLLM, {}),
      DirectEnv("ok", BoardHttp, LLMOutcome(FALSE, Content(FALSE, "")), {}),
      DirectEnv("ok", BoardHttp, PlanLLM, {"pdf"}) }

NextDirect ==
    \/ \E v \in AgentKeys, run \in AgentRunEnvs : ChangeInput("api_key", v, run)
    \/ \E f \in {"trello_key", "trello_token"}, v \in TrelloValues, run \in AgentRunEnvs :
          ChangeInput(f, v, run)
    \/ \E b \in DirectFiles, env \in DirectEnvs, run \in AgentRunEnvs :
          GeneratePlan(b, env, run)
    \/ \E b \in DirectBoards, env \in DirectEnvs, run \in AgentRunEnvs :
          GenerateReport(b, env, run)

SpecDirect == Init /\ [][NextDirect]_vars

\* The press reached the LLMHandler and its LLM call failed: it returned one
\* of its error texts
DirectLLMFailed ==
    /\ lastTool /= NoCall /\ lastTool.tool \in {"plan_tab", "report_tab"}
    /\ lastTool.llm /= NoCall /\ lastTool.llm.kind = "return"
    /\ lastTool.llm.value \in LLMErrorTexts

\* C28 (fails when the completion call raises): after a press of Generate
\* Plan or Generate Report whose LLM call failed, the error text that
\* LLMHandler returned is not the session's current_plan / current_report,
\* and plan_files / report_files are not files rendered from it.
C28_ErrorTextNotStored ==
    DirectLLMFailed =>
        LET kind == IF lastTool.tool = "plan_tab" THEN "plan" ELSE "report"
        IN  /\ ~(Has(ss, "current_" \o kind)
                 /\ ss["current_" \o kind] = lastTool.llm.value)
            /\ ~(Has(ss, kind \o "_files")
                 /\ ss[kind \o "_files"]["md"].content = lastTool.llm.value)

----------------------------------------------------------------------------
(* C29: the documents ledger and the audit log (SpecDocs)                  *)

UploadEntries(doc_id) ==
    {l \in audit_logs : l.action = "upload_document" /\ l.doc_id = doc_id}

\* C29 (fails after a call in which insert_audit_log raised): after any run
\* of save_uploaded_files, also one that a failure ended, every documents
\* row has exactly one upload_document audit entry whose doc_id is its id,
\* and every upload_document audit entry has the id of a documents row.
C29_LedgerMatchesAudit ==
    lastSave /= NoCall =>
        /\ \A d \in documents : Cardinality(UploadEntries(d.id)) = 1
        /\ \A l \in audit_logs :
              l.action = "upload_document" => DocRow(l.doc_id) /= NoRow

----------------------------------------------------------------------------
(* C30: tenants and e-mail domains (SpecUsers)                             *)

\* C30 (fails for acme.com and acme.org, which both give the company name
\* Acme): two users created through get_or_create_user whose e-mail domains
\* differ are never in the same tenant.
C30_DomainsApart ==
    \A u \in users, v \in users :
        _extract_domain_from_email(u.email) /= _extract_domain_from_email(v.email)
            => u.company_id /= v.company_id

====
